---- MODULE Spec2Model ----
(***************************************************************************)
(* Model of the agent-trust-gateway: the payment gate in front of /a2a and *)
(* /api/*, the JSON-RPC endpoint, the REST/invoke handlers with their      *)
(* input validation, registration-file resolution, and the trust score.    *)
(*                                                                         *)
(* Spec       one HTTP request at a time through createApp's middleware    *)
(*            chain and route handlers, one step per await.                *)
(* SpecScore  the scoring arithmetic of POST /agent/score/invoke applied   *)
(*            to bounded registration documents and feedback collections.  *)
(* SpecValidate  the checks of POST /agent/validate/invoke, one step per   *)
(*            await, over every accepted list of checks and every outcome  *)
(*            of the probes, the metadata read and the feedback read.      *)
(* SpecExecutor  one call of execute or cancelTask of                      *)
(*            TrustGatewayExecutor, over a set of user messages and every  *)
(*            outcome of its registry calls and probes.                    *)
(* SpecProbes    the endpoint loops of the validate handler and of         *)
(*            validateAgent together, with their timers and the time they  *)
(*            take.                                                        *)
(***************************************************************************)
EXTENDS Integers, Sequences, FiniteSets, TLC

\* ------------------------------------------------------------------------
\* Bounds of the model
\* ------------------------------------------------------------------------

\* longest agentId string drawn for a request
MaxIdLen == 2

\* most runs of equal samples in a feedback collection
MaxRuns == 2

\* ------------------------------------------------------------------------
\* Request inputs
\* ------------------------------------------------------------------------

Digits == {"0", "7"}

\* characters an agentId string is drawn from
Chars == Digits \cup {"x", "-"}

RECURSIVE StringsUpTo(_)
StringsUpTo(n) ==
    IF n = 0 THEN {<<>>}
    ELSE LET shorter == StringsUpTo(n - 1)
         IN  shorter \cup {Append(s, ch) : s \in shorter, ch \in Chars}

IdStrings == StringsUpTo(MaxIdLen)

HttpMethods == {"GET", "POST"}

\* request paths, by shape; "/api/agent/:id/profile" stands for the path whose
\* third segment is the request's id string
Paths ==
    {"/a2a", "/api/health", "/api/hello", "/api/agent/:id/profile",
     "/api/agent/profile/invoke", "/api/agent/score/invoke",
     "/api/agent/validate/invoke"}

ApiPaths == Paths \ {"/a2a"}

\* X-PAYMENT header: absent, present and rejected by the facilitator, or
\* present and accepted
Proofs == {"none", "invalid", "valid"}

\* Content-Type headers, as the list of their ";"-separated segments, each a
\* media type main/[prefix+]sub or a parameter
Seg(main, prefix, sub) == [main |-> main, prefix |-> prefix, sub |-> sub]

ContentTypes ==
    {<<>>,
     <<Seg("application", "", "json")>>,
     <<Seg("application", "", "json"), Seg("charset", "", "utf-8")>>,
     <<Seg("application", "ld", "json")>>,
     <<Seg("text", "", "plain")>>,
     <<Seg("text", "", "csv")>>,
     <<Seg("application", "", "xml")>>}

\* JSON values a /a2a body can parse to.  An object carries its "method"
\* member: absent, a non-string, or a method name.
NoMethod == "<absent>"
NonStringMethod == "<number>"
MethodNames == {"message/send", "message/stream", "tasks/get", "tasks/cancel", "bogus"}

JsonVal(t, method) == [t |-> t, method |-> method]

JsonValues ==
    {JsonVal(t, NoMethod) : t \in {"null", "false", "zero", "number", "string"}}
    \cup {JsonVal("array", "message/send")}
    \cup {JsonVal("object", m) : m \in MethodNames \cup {NoMethod, NonStringMethod}}

\* raw request bodies: empty, whitespace only, not JSON, or the text of a value
RawBody(k, v) == [k |-> k, v |-> v]

RawBodies ==
    {RawBody(k, JsonVal("null", NoMethod)) : k \in {"empty", "blank", "garbage"}}
    \cup {RawBody("json", v) : v \in JsonValues}

\* agentId member of an invoke input: a string, a number (in halves, so that
\* n = 3 is 1.5), another JSON type, or missing
AgentIdVal(t, s, n) == [t |-> t, s |-> s, n |-> n]

AgentIdValues ==
    {AgentIdVal("string", s, 0) : s \in IdStrings}
    \cup {AgentIdVal("number", <<>>, n) : n \in {-2, -1, 0, 3, 14}}
    \cup {AgentIdVal(t, <<>>, 0) : t \in {"boolean", "missing"}}

\* checks member of a validate input: missing, an array of strings, or
\* another JSON type
ChecksVal(t, items) == [t |-> t, items |-> items]

AbsentChecks == ChecksVal("absent", <<>>)

ChecksValues ==
    {AbsentChecks, ChecksVal("string", <<>>)}
    \cup {ChecksVal("array", items) :
            items \in {<<>>, <<"wallet">>, <<"endpoints">>, <<"attestations">>,
                       <<"attestations", "wallet">>,
                       <<"endpoints", "wallet", "attestations">>,
                       <<"wallet", "bogus">>}}

\* the checks members drawn for the requests of Spec
SampleChecks ==
    {ChecksVal("array", items) :
        items \in {<<"wallet">>, <<"endpoints", "wallet", "attestations">>,
                   <<"wallet", "bogus">>}}

\* invoke bodies: not JSON / not an object, or an envelope with its input
InvokeBody(env, agentId) == [env |-> env, agentId |-> agentId, checks |-> AbsentChecks]

\* a validate body whose input names its checks
ValidateBody(agentId, checks) == [env |-> "ok", agentId |-> agentId, checks |-> checks]

InvokeBodies ==
    {InvokeBody(env, AgentIdVal("missing", <<>>, 0)) : env \in {"invalid", "no-input"}}
    \cup {InvokeBody("ok", a) : a \in AgentIdValues}


\* a request as it reaches the app; members that do not apply to the path
\* keep a fixed default
Request(path, httpMethod, proof, contentType, raw, id, invoke) ==
    [path |-> path, httpMethod |-> httpMethod, proof |-> proof,
     contentType |-> contentType, raw |-> raw, id |-> id, invoke |-> invoke]

NoRaw == RawBody("empty", JsonVal("null", NoMethod))
NoInvoke == InvokeBody("invalid", AgentIdVal("missing", <<>>, 0))

A2ARequests ==
    {Request("/a2a", m, p, ct, raw, <<>>, NoInvoke) :
        m \in HttpMethods, p \in Proofs, ct \in ContentTypes, raw \in RawBodies}

ApiRequests ==
    {Request(path, m, p, <<>>, NoRaw, <<>>, NoInvoke) :
        path \in {"/api/health", "/api/hello"}, m \in HttpMethods, p \in Proofs}
    \cup {Request("/api/agent/:id/profile", m, p, <<>>, NoRaw, id, NoInvoke) :
            m \in HttpMethods, p \in Proofs, id \in IdStrings \ {<<>>}}
    \cup {Request(path, m, p, <<>>, NoRaw, <<>>, b) :
            path \in {"/api/agent/profile/invoke", "/api/agent/score/invoke",
                      "/api/agent/validate/invoke"},
            m \in HttpMethods, p \in Proofs, b \in InvokeBodies}
    \cup {Request("/api/agent/validate/invoke", "POST", p, <<>>, NoRaw, <<>>,
                  ValidateBody(AgentIdVal("string", <<"7">>, 0), c)) :
            p \in Proofs, c \in SampleChecks}

Requests == A2ARequests \cup ApiRequests

\* ------------------------------------------------------------------------
\* src/app.ts: tables
\* ------------------------------------------------------------------------

PAID_A2A_METHODS == {"message/send", "message/stream"}

\* the price table, as the "VERB path" keys of the route configuration; the
\* wildcard entry covers every GET /api/agent/<id>/profile
PAID_ENDPOINTS ==
    {<<"GET", "/api/agent/:id/profile">>,
     <<"POST", "/api/agent/profile/invoke">>,
     <<"POST", "/api/agent/score/invoke">>,
     <<"POST", "/api/agent/validate/invoke">>,
     <<"POST", "/a2a">>}

FREE_PATHS == {"/api/health"}

\* ------------------------------------------------------------------------
\* src/app.ts: parseA2AJsonBody
\* ------------------------------------------------------------------------

ParseOk(body) == [ok |-> TRUE, body |-> body, code |-> 0]
ParseError(code) == [ok |-> FALSE, body |-> JsonVal("null", NoMethod), code |-> code]

\* mutant: any text/ media type is tolerated
AcceptsAsJson_AnyText(contentType) ==
    \/ contentType = <<>>
    \/ \E i \in 1..Len(contentType) :
         \/ contentType[i].main = "application" /\ contentType[i].sub = "json"
         \/ contentType[i].main = "text"

\* contentType === "" or a segment application/[x+]json or text/plain
AcceptsAsJson(contentType) ==
    \/ contentType = <<>>
    \/ \E i \in 1..Len(contentType) :
         \/ contentType[i].main = "application" /\ contentType[i].sub = "json"
         \/ contentType[i].main = "text" /\ contentType[i].sub = "plain"
                /\ contentType[i].prefix = ""

\* mutant: a body that is not JSON is read as no body
ParseRawBody_SwallowsSyntaxError(contentType, raw) ==
    IF raw.k \in {"empty", "blank"} THEN ParseOk(JsonVal("null", NoMethod))
    ELSE IF ~AcceptsAsJson(contentType) THEN ParseError(-32600)
    ELSE IF raw.k = "garbage" THEN ParseOk(JsonVal("null", NoMethod))
    ELSE ParseOk(raw.v)

\* mutant: the content type is checked before the body is found empty
ParseRawBody_TypeBeforeEmpty(contentType, raw) ==
    IF ~AcceptsAsJson(contentType) THEN ParseError(-32600)
    ELSE IF raw.k \in {"empty", "blank"} THEN ParseOk(JsonVal("null", NoMethod))
    ELSE IF raw.k = "garbage" THEN ParseError(-32700)
    ELSE ParseOk(raw.v)

\* raw.trim() is empty for an empty and for a whitespace-only body
ParseRawBody(contentType, raw) ==
    IF raw.k \in {"empty", "blank"} THEN ParseOk(JsonVal("null", NoMethod))
    ELSE IF ~AcceptsAsJson(contentType) THEN ParseError(-32600)
    ELSE IF raw.k = "garbage" THEN ParseError(-32700)
    ELSE ParseOk(raw.v)

parseA2AJsonBody(r) == ParseRawBody(r.contentType, r.raw)

\* !body: null, false and 0 are falsy
Falsy(v) == v.t \in {"null", "false", "zero"}

\* mutant: arrays count as objects
NotAnObject_ArraysPass(v) == Falsy(v) \/ v.t \notin {"object", "array"}

\* !body || typeof body !== "object" || Array.isArray(body)
NotAnObject(v) == Falsy(v) \/ v.t # "object"

\* the middleware's test for a body it cannot classify
Unclassified(v) ==
    NotAnObject(v) \/ v.method = NoMethod \/ v.method = NonStringMethod

\* ------------------------------------------------------------------------
\* State
\* ------------------------------------------------------------------------

VARIABLES
    bypassPayments,  \* config.bypassPayments, fixed when the app is created
    req,             \* the request being served
    pc,              \* where the request is in the chain
    jsonrpcBody,     \* the context variable "jsonrpcBody" (Undefined when unset)
    log,             \* external capabilities invoked for this request, in order
    res,             \* the response, once sent
    handler,         \* the /api route handler that is running
    tokenUri,        \* the token URI read from the identity registry
    fetchUrls,       \* fetchRegistrationFile: the candidate list
    idx,             \* fetchRegistrationFile: the candidate about to be fetched
    lastStatus,      \* fetchRegistrationFile: lastStatus
    fetchLog,        \* the HTTP fetches made, in order, with what they returned
    doc,             \* the registration file, once resolved
    feedback,        \* the feedback the scoring read (a list of runs)
    score,           \* the output of the scoring
    owner,           \* the owner address read from the identity registry
    report,          \* the validation report
    feedbackError,   \* the message of the error the feedback read threw ("" when none)
    timers,          \* the armed timers of the endpoint probes
    elapsed,         \* milliseconds spent in the endpoint loop so far
    userMessage,     \* executor: requestContext.userMessage
    eventBus,        \* executor: what was called on the event bus, in order
    responseText     \* executor: responseText

vars == <<bypassPayments, req, pc, jsonrpcBody, log, res, handler, tokenUri,
          fetchUrls, idx, lastStatus, fetchLog, doc, feedback, score, owner, report,
          feedbackError, timers, elapsed, userMessage, eventBus, responseText>>

validateVars == <<owner, report>>

probeVars == <<timers, elapsed>>

executorVars == <<userMessage, eventBus, responseText>>

resolveVars == <<tokenUri, fetchUrls, idx, lastStatus, fetchLog, doc>>

\* the executor is not running
NoMessage == <<"none">>

NoText == [kind |-> ""]

Undefined == JsonVal("undefined", NoMethod)

\* responses: HTTP status, JSON-RPC error code (0 when none), what the body
\* is, the "details" member of an error body ("" when there is none), and
\* the "id" member of a JSON-RPC error ("" in other bodies)
Response(status, rpc, kind, details) ==
    [status |-> status, rpc |-> rpc, kind |-> kind, details |-> details, id |-> ""]

\* the id of a JSON-RPC error: null, or the id of the request when it has one
NullId == "null"
RequestIdOrNull == "body.id ?? null"

NoResponse == Response(0, 0, "none", "")

\* c.json(jsonRpcError(id, code, message)): HTTP 200
jsonRpcError(id, code) == [Response(200, code, "jsonrpc-error", "") EXCEPT !.id = id]

\* the router's answer when no handler matches
RouteNotFound == Response(404, 0, "no-route", "")

\* ------------------------------------------------------------------------
\* src/payments/x402.ts: the payment middleware built from the price table
\* ------------------------------------------------------------------------

\* The middleware is configured with one entry per "VERB path" key of the
\* table and holds a price for those routes only.  A request on a configured
\* route passes with a proof the facilitator accepts and is answered 402
\* otherwise; a request on a route without an entry has no price to be
\* charged and is passed on.
paymentMiddleware(r) ==
    IF <<r.httpMethod, r.path>> \in PAID_ENDPOINTS
    THEN IF r.proof = "valid" THEN "next" ELSE "402"
    ELSE "next"

PaymentRequired == Response(402, 0, "payment-required", "")


\* ------------------------------------------------------------------------
\* src/app.ts: the /a2a and /api/* middleware
\* ------------------------------------------------------------------------

\* what a middleware did: whether it called the payment middleware, whether
\* the chain continued (next), the response it sent otherwise, and the
\* value it stored in the context
Gate(pay, next, response, body) ==
    [pay |-> pay, next |-> next, res |-> response, body |-> body]

WithPayment(r, body) ==
    IF paymentMiddleware(r) = "next"
    THEN Gate(TRUE, TRUE, NoResponse, body)
    ELSE Gate(TRUE, FALSE, PaymentRequired, body)

\* mutant: message/stream is left out of the paid set
a2aMiddleware_SendOnly(bypass, r) ==
    LET parsed == parseA2AJsonBody(r)
    IN  IF ~parsed.ok THEN Gate(FALSE, FALSE, jsonRpcError(NullId, parsed.code), Undefined)
        ELSE IF Unclassified(parsed.body) THEN Gate(FALSE, TRUE, NoResponse, parsed.body)
        ELSE IF ~bypass /\ parsed.body.method = "message/send"
             THEN WithPayment(r, parsed.body)
        ELSE Gate(FALSE, TRUE, NoResponse, parsed.body)

\* mutant: every body with a string method is sent to the payment middleware
a2aMiddleware_AllMethods(bypass, r) ==
    LET parsed == parseA2AJsonBody(r)
    IN  IF ~parsed.ok THEN Gate(FALSE, FALSE, jsonRpcError(NullId, parsed.code), Undefined)
        ELSE IF Unclassified(parsed.body) THEN Gate(FALSE, TRUE, NoResponse, parsed.body)
        ELSE IF ~bypass THEN WithPayment(r, parsed.body)
        ELSE Gate(FALSE, TRUE, NoResponse, parsed.body)

a2aMiddleware(bypass, r) ==
    LET parsed == parseA2AJsonBody(r)
    IN  IF ~parsed.ok THEN Gate(FALSE, FALSE, jsonRpcError(NullId, parsed.code), Undefined)
        ELSE IF Unclassified(parsed.body) THEN Gate(FALSE, TRUE, NoResponse, parsed.body)
        ELSE IF ~bypass /\ parsed.body.method \in PAID_A2A_METHODS
             THEN WithPayment(r, parsed.body)
        ELSE Gate(FALSE, TRUE, NoResponse, parsed.body)

\* mutant: the bypass flag is not consulted
apiMiddleware_NoBypass(bypass, r) ==
    IF r.path \in FREE_PATHS THEN Gate(FALSE, TRUE, NoResponse, Undefined)
    ELSE WithPayment(r, Undefined)

apiMiddleware(bypass, r) ==
    IF bypass THEN Gate(FALSE, TRUE, NoResponse, Undefined)
    ELSE IF r.path \in FREE_PATHS THEN Gate(FALSE, TRUE, NoResponse, Undefined)
    ELSE WithPayment(r, Undefined)

\* ------------------------------------------------------------------------
\* src/a2a/handler.ts: POST /a2a
\* ------------------------------------------------------------------------

parseJsonRpcRequest(fromMiddleware, r) ==
    IF fromMiddleware # Undefined THEN ParseOk(fromMiddleware)
    ELSE ParseRawBody(r.contentType, r.raw)

\* outcomes of jsonRpcHandler.handle
RuntimeOutcomes == {"result", "throws"}

\* what the handler did: whether it called the runtime, and its response
Handled(handle, response) == [handle |-> handle, res |-> response]

a2aPost(fromMiddleware, r, outcome) ==
    LET parsed == parseJsonRpcRequest(fromMiddleware, r)
    IN  IF ~parsed.ok THEN Handled(FALSE, jsonRpcError(NullId, parsed.code))
        ELSE IF NotAnObject(parsed.body) THEN Handled(FALSE, jsonRpcError(NullId, -32600))
        ELSE IF outcome = "throws" THEN Handled(TRUE, jsonRpcError(RequestIdOrNull, -32603))
        ELSE Handled(TRUE, Response(200, 0, "jsonrpc-result", ""))

\* ------------------------------------------------------------------------
\* routes/api.ts: input validation
\* ------------------------------------------------------------------------

\* mutant: the pattern without its anchors, /\d+/
MatchesDigits_Unanchored(s) == \E i \in 1..Len(s) : s[i] \in Digits

\* /^\d+$/
MatchesDigits(s) == Len(s) > 0 /\ \A i \in 1..Len(s) : s[i] \in Digits

\* z.string().regex(/^\d+$/) on the path parameter
parseAgentIdParam(s) == MatchesDigits(s)

\* z.union([z.string().regex(/^\d+$/), z.number().int().nonnegative()])
agentIdSchema(a) ==
    \/ a.t = "string" /\ MatchesDigits(a.s)
    \/ a.t = "number" /\ a.n % 2 = 0 /\ a.n >= 0

CheckNames == {"endpoints", "wallet", "attestations"}

\* z.array(z.enum(["endpoints", "wallet", "attestations"])).optional()
checksSchema(c) ==
    \/ c.t = "absent"
    \/ c.t = "array" /\ \A i \in 1..Len(c.items) : c.items[i] \in CheckNames

\* .default(["endpoints", "wallet"])
checksOf(c) == IF c.t = "absent" THEN <<"endpoints", "wallet">> ELSE c.items

\* the handler a request is routed to ("" when the router has none)
RouteOf(r) ==
    CASE r.httpMethod = "GET" /\ r.path = "/api/health" -> "health"
      [] r.httpMethod = "GET" /\ r.path = "/api/agent/:id/profile" -> "profile"
      [] r.httpMethod = "POST" /\ r.path = "/api/agent/profile/invoke" -> "profile-invoke"
      [] r.httpMethod = "POST" /\ r.path = "/api/agent/score/invoke" -> "score-invoke"
      [] r.httpMethod = "POST" /\ r.path = "/api/agent/validate/invoke" -> "validate-invoke"
      [] OTHER -> ""

AgentHandlers == {"profile", "profile-invoke", "score-invoke", "validate-invoke"}

badRequest(error) == Response(400, 0, error, "validation-errors")

\* the checks a handler makes before it creates its registry clients: the
\* 400 response it returns, or NoResponse when the input is accepted
InputCheck(h, r) ==
    IF h = "profile"
    THEN IF parseAgentIdParam(r.id) THEN NoResponse ELSE badRequest("Invalid agentId")
    ELSE IF r.invoke.env = "invalid" THEN badRequest("Invalid request body")
    ELSE IF r.invoke.env = "no-input" \/ ~agentIdSchema(r.invoke.agentId)
         THEN badRequest("Invalid input")
    ELSE IF h = "validate-invoke" /\ ~checksSchema(r.invoke.checks)
         THEN badRequest("Invalid input")
    ELSE NoResponse

\* ------------------------------------------------------------------------
\* routes/api.ts: registration-file resolution
\* ------------------------------------------------------------------------

\* registration documents: the declared endpoints, the declared trust
\* methods and the length of the description
Doc(endpoints, supportedTrust, descLen) ==
    [endpoints |-> endpoints, supportedTrust |-> supportedTrust, descLen |-> descLen]

Docs ==
    {Doc(e, t, d) : e \in {<<>>, <<"a2a", "web">>},
                    t \in {<<>>, <<"reputation", "tee-attestation", "custom">>},
                    d \in {50, 51}}

NoDoc == Doc(<<>>, <<>>, -1)

\* token URIs: an inline data:application/json;base64 URI whose payload is
\* a JSON object, not base64, or not JSON; an ipfs:// pointer; or any other
\* URL
Uri(scheme, payload, d) == [scheme |-> scheme, payload |-> payload, doc |-> d]

TokenUris ==
    {Uri("data", "object", d) : d \in Docs}
    \cup {Uri("data", p, NoDoc) : p \in {"bad-base64", "bad-json"}}
    \cup {Uri("ipfs", "", NoDoc), Uri("https", "", NoDoc)}

NoUri == Uri("", "", NoDoc)

\* mutant: the data: pattern matches nothing
parseDataUri_NoMatch(uri) == NoDoc

\* parseDataUri: the decoded document, or NoDoc for null
parseDataUri(uri) ==
    IF uri.scheme = "data" /\ uri.payload = "object" THEN uri.doc ELSE NoDoc

\* the candidate list: three gateways for ipfs://, the URI itself otherwise
FetchCandidates(uri) ==
    IF uri.scheme = "ipfs"
    THEN <<"ipfs.io", "cloudflare-ipfs.com", "dweb.link">>
    ELSE <<"literal">>

\* what a fetch can return: no response (status 0), a status, and for a 2xx
\* response whether the body parses and the document it parses to
Fetched(status, json, d) == [status |-> status, json |-> json, doc |-> d]

HttpOutcomes ==
    {Fetched(s, FALSE, NoDoc) : s \in {0, 404, 500, 403, 200}}
    \cup {Fetched(200, TRUE, d) : d \in Docs}

\* fetching a data: URL involves no server: it fails on a payload that does
\* not decode and answers 200 with the decoded bytes otherwise
DataOutcomes(uri) ==
    IF uri.payload = "bad-base64" THEN {Fetched(0, FALSE, NoDoc)}
    ELSE IF uri.payload = "bad-json" THEN {Fetched(200, FALSE, NoDoc)}
    ELSE {Fetched(200, TRUE, uri.doc)}

FetchOutcomes(uri) ==
    IF uri.scheme = "data" THEN DataOutcomes(uri) ELSE HttpOutcomes

\* response.ok
Ok(f) == f.status >= 200 /\ f.status <= 299

\* one pass of the loop body on what the fetch returned: "return" with the
\* document, "throw" when response.json() rejects, or "continue" with the
\* new lastStatus
LoopStep(kind, status) == [kind |-> kind, status |-> status]

\* mutant: a 2xx response does not leave the loop
FetchStep_NoReturn(last, f) ==
    IF f.status = 0 THEN LoopStep("continue", 502)
    ELSE IF Ok(f) THEN LoopStep("continue", last)
    ELSE LoopStep("continue", f.status)

\* mutant: a transport failure records no status
FetchStep_KeepOnFailure(last, f) ==
    IF f.status = 0 THEN LoopStep("continue", last)
    ELSE IF Ok(f) THEN (IF f.json THEN LoopStep("return", last) ELSE LoopStep("throw", last))
    ELSE LoopStep("continue", f.status)

\* mutant: a 2xx response whose body does not parse falls through to the
\* next candidate
FetchStep_SkipBadBody(last, f) ==
    IF f.status = 0 THEN LoopStep("continue", 502)
    ELSE IF Ok(f) THEN (IF f.json THEN LoopStep("return", last) ELSE LoopStep("continue", last))
    ELSE LoopStep("continue", f.status)

\* mutant: a status other than 404 ends the loop
FetchStep_AbortOnOtherStatus(last, f) ==
    IF f.status = 0 THEN LoopStep("continue", 502)
    ELSE IF Ok(f) THEN (IF f.json THEN LoopStep("return", last) ELSE LoopStep("throw", last))
    ELSE IF f.status = 404 THEN LoopStep("continue", f.status)
    ELSE LoopStep("throw", f.status)

FetchStep(last, f) ==
    IF f.status = 0 THEN LoopStep("continue", 502)
    ELSE IF Ok(f) THEN (IF f.json THEN LoopStep("return", last) ELSE LoopStep("throw", last))
    ELSE LoopStep("continue", f.status)

\* errors a handler catches
Err(type, status, message) == [type |-> type, status |-> status, message |-> message]

RegistrationFileError(status) ==
    Err("RegistrationFileError", status,
        "Failed to fetch registration file: " \o ToString(status))

\* a failing registry call, with the message of the error it raised
RegistryError(call) == Err("Error", 0, call \o " reverted")

SyntaxError == Err("SyntaxError", 0, "Unexpected token in JSON")

endpointError(errorMessage, e) ==
    IF e.type = "RegistrationFileError" /\ e.status = 404
    THEN Response(404, 0, errorMessage,
                  "Agent registration metadata not found (token URI unresolved)")
    ELSE Response(500, 0, errorMessage, e.message)

ErrorMessageOf(h) ==
    CASE h \in {"profile", "profile-invoke"} -> "Failed to fetch agent profile"
      [] h = "score-invoke" -> "Failed to compute trust score"
      [] OTHER -> "Failed to validate agent"

\* ------------------------------------------------------------------------
\* routes/api.ts: scoring
\* ------------------------------------------------------------------------

\* A feedback collection is the array of scores the reputation registry
\* returned, written as a list of runs: Run(v, c) is c samples equal to v.
Run(v, c) == [v |-> v, c |-> c]

ScoreValues == {-50, 0, 14, 15, 35, 55, 75, 100}

RunLengths == {1, 2, 11}

Runs == {Run(v, c) : v \in ScoreValues, c \in RunLengths}

RECURSIVE FeedbackUpTo(_)
FeedbackUpTo(n) ==
    IF n = 0 THEN {<<>>}
    ELSE LET shorter == FeedbackUpTo(n - 1)
         IN  shorter \cup {Append(fb, r) : fb \in shorter, r \in Runs}

Feedbacks == FeedbackUpTo(MaxRuns)

\* scores.length
RECURSIVE Count(_)
Count(fb) == IF fb = <<>> THEN 0 ELSE Head(fb).c + Count(Tail(fb))

\* scores.reduce((sum, s) => sum + s, 0)
RECURSIVE Sum(_)
Sum(fb) == IF fb = <<>> THEN 0 ELSE Head(fb).v * Head(fb).c + Sum(Tail(fb))

\* the sum of the squares of the scores
RECURSIVE SumSq(_)
SumSq(fb) ==
    IF fb = <<>> THEN 0 ELSE Head(fb).v * Head(fb).v * Head(fb).c + SumSq(Tail(fb))

Min(a, b) == IF a <= b THEN a ELSE b
Max(a, b) == IF a >= b THEN a ELSE b

\* the largest r with r * r <= m, for 0 <= m < 2^31
RECURSIVE SqrtBetween(_, _, _)
SqrtBetween(m, lo, hi) ==
    IF lo = hi THEN lo
    ELSE LET mid == (lo + hi + 1) \div 2
         IN  IF mid * mid <= m THEN SqrtBetween(m, mid, hi)
             ELSE SqrtBetween(m, lo, mid - 1)

FloorSqrt(m) == SqrtBetween(m, 0, 46340)

CeilSqrt(m) == LET r == FloorSqrt(m) IN IF r * r = m THEN r ELSE r + 1

\* The scoring works on fractions and one square root.  Num(a, q, k), with
\* k > 0 and q >= 0, is the number (a - sqrt(q)) / k, so that the arithmetic
\* below is exact.
Num(a, q, k) == [a |-> a, q |-> q, k |-> k]

\* Math.round: the nearest integer, a tie going up: floor(x + 1/2)
Round(x) == (2 * x.a + x.k - CeilSqrt(4 * x.q)) \div (2 * x.k)

\* comparisons of (a - sqrt(q)) / k with an integer c
Above(x, c) == x.a - c * x.k > FloorSqrt(x.q)
Below(x, c) == x.a - c * x.k < CeilSqrt(x.q)

\* the denominator the handler's divisions by feedbackCount share
Denominator(fb) == Max(Count(fb), 1)

\* n * n times the population variance of the scores: n * sum(s^2) - sum(s)^2
VarianceTimesN2(fb) == Count(fb) * SumSq(fb) - Sum(fb) * Sum(fb)

\* avgScore: sum / n, or 0 without feedback
avgScore(fb) == Num(Sum(fb), 0, Denominator(fb))

\* 100 - computeVariance(scores), over n: computeVariance is the population
\* standard deviation sqrt(D) / n with D = VarianceTimesN2, and 0 for no scores
HundredMinusDeviation(fb) ==
    Num(100 * Denominator(fb), VarianceTimesN2(fb), Denominator(fb))

identityMaturity(d) ==
    (IF Len(d.endpoints) > 0 THEN 30 ELSE 0)
    + (IF Len(d.supportedTrust) > 0 THEN 20 ELSE 0)
    + (IF d.descLen > 50 THEN 10 ELSE 0)

volumeScore(fb) == Min(30, Count(fb) * 3)

\* Math.min(20, x) for x over the denominator 5 n
Min20(x) == IF Above(x, 20) THEN Num(20 * x.k, 0, x.k) ELSE x

\* feedbackCount > 0 ? Math.min(20, (100 - computeVariance(scores)) / 5) : 0,
\* over the denominator 5 n
consistencyScore(fb) ==
    IF Count(fb) > 0
    THEN LET h == HundredMinusDeviation(fb) IN Min20(Num(h.a, h.q, 5 * h.k))
    ELSE Num(0, 0, 5 * Denominator(fb))

\* volumeScore + consistencyScore, over the denominator 5 n
reputationConfidence(fb) ==
    LET c == consistencyScore(fb)
    IN  Num(volumeScore(fb) * c.k + c.a, c.q, c.k)

\* mutant: the average stands in for the base score without feedback too
effectiveBaseScore_Average(fb) == avgScore(fb)

\* feedbackCount > 0 ? baseScore : 50, over the denominator n
effectiveBaseScore(fb) ==
    IF Count(fb) > 0 THEN avgScore(fb) ELSE Num(50 * Denominator(fb), 0, Denominator(fb))

\* effectiveBaseScore + identityMaturity * 0.3 + reputationConfidence * 0.2,
\* over the denominator 50 n: the base is b.a / n and the confidence
\* (c.a - sqrt(c.q)) / (5 n)
rawScore(d, fb) ==
    LET b == effectiveBaseScore(fb)
        c == reputationConfidence(fb)
    IN  Num(50 * b.a + 15 * identityMaturity(d) * b.k + 2 * c.a, 4 * c.q, 50 * b.k)

\* mutant: the rounded score is not clamped
trustScore_NoClamp(d, fb) == Round(rawScore(d, fb))

\* Math.min(100, Math.max(0, Math.round(...)))
trustScore(d, fb) == Min(100, Max(0, Round(rawScore(d, fb))))

\* mutant: the bands exclude their lower bound
verdict_Exclusive(s) ==
    IF s > 80 THEN "highly-trusted"
    ELSE IF s > 60 THEN "trusted"
    ELSE IF s > 40 THEN "neutral"
    ELSE IF s > 20 THEN "low-trust"
    ELSE "untrusted"

verdict(s) ==
    IF s >= 80 THEN "highly-trusted"
    ELSE IF s >= 60 THEN "trusted"
    ELSE IF s >= 40 THEN "neutral"
    ELSE IF s >= 20 THEN "low-trust"
    ELSE "untrusted"

\* the scoring part of the output of POST /agent/score/invoke
ScoreOutput(d, fb, warning) ==
    [trustScore |-> trustScore(d, fb),
     verdict |-> verdict(trustScore(d, fb)),
     feedbackScore |-> Round(effectiveBaseScore(fb)),
     identityMaturity |-> identityMaturity(d),
     reputationConfidence |-> reputationConfidence(fb),
     count |-> Count(fb),
     warning |-> warning]

NoScore ==
    [trustScore |-> -1, verdict |-> "", feedbackScore |-> -1, identityMaturity |-> -1,
     reputationConfidence |-> Num(0, 0, 1), count |-> -1, warning |-> ""]

\* feedback collections the reputation registry returns in Spec
SampleFeedback ==
    {<<>>, <<Run(75, 1)>>, <<Run(100, 11)>>, <<Run(0, 2), Run(55, 1)>>}

\* ------------------------------------------------------------------------
\* routes/api.ts: validation
\* ------------------------------------------------------------------------

\* checks.includes(x)
Includes(list, x) == \E i \in 1..Len(list) : list[i] = x

\* number of hexadecimal digits of an address, /^0x[a-fA-F0-9]{40}$/
AddressHexLen == 40

HexDigits ==
    {"0", "1", "2", "3", "4", "5", "6", "7", "8", "9",
     "a", "b", "c", "d", "e", "f", "A", "B", "C", "D", "E", "F"}

\* strings are sequences of characters; Hex(c1, c2) is c1 c2 c1 c2 ... of
\* the length of an address body
Hex(c1, c2) == [i \in 1..AddressHexLen |-> IF i % 2 = 1 THEN c1 ELSE c2]

\* the owner address the identity registry returns
OwnerAddress == <<"0", "x">> \o Hex("A", "b")

\* what getMetadata(agentId, "agentWallet") can give: ok is FALSE when the
\* call fails
Metadata(ok, value) == [ok |-> ok, value |-> value]

WalletMetadata ==
    {Metadata(FALSE, <<>>), Metadata(TRUE, <<>>)}
    \cup {Metadata(TRUE, w) :
            w \in {<<"0", "x">> \o Hex("a", "b"),
                   <<"0", "x">> \o Hex("a", "B"),
                   <<"0", "x">> \o Hex("1", "2"),
                   <<"0", "X">> \o Hex("A", "b"),
                   <<"0", "x">> \o Hex("g", "1"),
                   SubSeq(OwnerAddress, 1, AddressHexLen + 1),
                   <<"n", "o", "n", "e">>}}

\* the metadata outcomes drawn in Spec
SampleWalletMetadata ==
    {Metadata(FALSE, <<>>), Metadata(TRUE, <<"n", "o", "n", "e">>)}

LowerChar(c) ==
    CASE c = "A" -> "a" [] c = "B" -> "b" [] c = "C" -> "c" [] c = "D" -> "d"
      [] c = "E" -> "e" [] c = "F" -> "f" [] c = "X" -> "x" [] OTHER -> c

\* String.prototype.toLowerCase
toLowerCase(s) == [i \in 1..Len(s) |-> LowerChar(s[i])]

\* /^0x[a-fA-F0-9]{40}$/.test(wallet)
isValidAddress(w) ==
    /\ Len(w) = 2 + AddressHexLen
    /\ w[1] = "0" /\ w[2] = "x"
    /\ \A i \in 3..Len(w) : w[i] \in HexDigits

\* status of the response to a HEAD probe, 0 for no response
ProbeOutcomes == {0, 200, 404, 500}

\* the probe outcomes drawn in Spec
SampleProbeOutcomes == {0, 200}

\* setTimeout(() => controller.abort(), 5000): the delay of the probe timer
ProbeTimeoutMs == 5000

\* how a HEAD probe ends: with the status of the response (0 for no
\* response) after ms milliseconds
Probed(status, ms) == [status |-> status, ms |-> ms]

\* the probe is answered, or refused, at once with one of the statuses of
\* S, or nothing comes back until the timer fires and aborts the fetch,
\* which then rejects
ProbesOf(S) == {Probed(s, 0) : s \in S} \cup {Probed(0, ProbeTimeoutMs)}

\* timers are named after the endpoint they were armed for
setTimeout(ts, id) == ts \cup {id}

\* a timer that has fired is not armed any more
expire(ts, id, probed) == IF probed.ms >= ProbeTimeoutMs THEN ts \ {id} ELSE ts

\* mutant: clearing a timer does nothing
clearTimeout_Noop(ts, id) == ts

clearTimeout(ts, id) == ts \ {id}

WalletStatus(address, valid, isOwner) ==
    [address |-> address, valid |-> valid, isOwner |-> isOwner]

\* the validation report as the handler creates it
InitialReport ==
    [endpointStatus |-> <<>>,
     walletStatus |-> WalletStatus(<<>>, FALSE, FALSE),
     attestations |-> <<>>,
     overallVerdict |-> "pending",
     issues |-> <<>>]

\* response && response.ok
ProbeOk(status) == status >= 200 /\ status <= 299

\* the body of the endpoint loop for the endpoint called name, the probe
\* having returned status
recordProbe(rep, name, status) ==
    IF ProbeOk(status)
    THEN [rep EXCEPT !.endpointStatus =
              Append(@, [name |-> name, status |-> "reachable", error |-> ""])]
    ELSE [rep EXCEPT
              !.endpointStatus =
                  Append(@, [name |-> name, status |-> "unreachable",
                             error |-> IF status = 0 THEN "Connection failed"
                                       ELSE "HTTP " \o ToString(status)]),
              !.issues = Append(@, "Endpoint " \o name \o " is unreachable")]

\* the wallet checked: the metadata override, or the owner when the lookup
\* fails or gives an empty value
resolveWallet(own, meta) ==
    IF meta.ok /\ meta.value # <<>> THEN meta.value ELSE own

\* mutant: a wallet that is not the owner is an issue too
recordWallet_IssueWhenNotOwner(rep, own, meta) ==
    LET wallet == resolveWallet(own, meta)
    IN  [rep EXCEPT
             !.walletStatus = WalletStatus(wallet, isValidAddress(wallet),
                                           toLowerCase(wallet) = toLowerCase(own)),
             !.issues = IF isValidAddress(wallet) /\ toLowerCase(wallet) = toLowerCase(own)
                        THEN @
                        ELSE Append(@, "Invalid wallet address format")]

\* the wallet check
recordWallet(rep, own, meta) ==
    LET wallet == resolveWallet(own, meta)
    IN  [rep EXCEPT
             !.walletStatus = WalletStatus(wallet, isValidAddress(wallet),
                                           toLowerCase(wallet) = toLowerCase(own)),
             !.issues = IF isValidAddress(wallet) THEN @
                        ELSE Append(@, "Invalid wallet address format")]

\* what reputation.readAllFeedback can give: ok is FALSE when it throws,
\* with the message of the error
FeedbackRead(ok, scores, message) == [ok |-> ok, scores |-> scores, message |-> message]

FeedbackFailure == FeedbackRead(FALSE, <<>>, "readAllFeedback reverted")

FeedbackReads(S) == {FeedbackFailure} \cup {FeedbackRead(TRUE, fb, "") : fb \in S}

\* mutant: the failure is swallowed without a warning
readFeedbackSafe_NoWarning(read) ==
    IF read.ok THEN [scores |-> read.scores, warning |-> ""]
    ELSE [scores |-> <<>>, warning |-> ""]

\* readFeedbackSafe: the scores, or none and a warning
readFeedbackSafe(read) ==
    IF read.ok THEN [scores |-> read.scores, warning |-> ""]
    ELSE [scores |-> <<>>, warning |-> read.message]

Attestation(type, status, details) ==
    [type |-> type, status |-> status, details |-> details]

\* the body of the attestation loop for one declared trust type; read is
\* consulted for "reputation" only
attestationOf(trustType, read) ==
    CASE trustType = "reputation" ->
           LET fb == readFeedbackSafe(read)
           IN  Attestation("reputation",
                   IF Count(fb.scores) > 0 THEN "active" ELSE "no-feedback",
                   IF fb.warning # ""
                   THEN "feedback unavailable: " \o fb.warning
                   ELSE ToString(Count(fb.scores)) \o " feedbacks, avg score: "
                        \o ToString(Round(avgScore(fb.scores))))
      [] trustType = "tee-attestation" ->
           Attestation(trustType, "declared",
                       "TEE attestation verification not yet implemented")
      [] trustType = "crypto-economic" ->
           Attestation(trustType, "declared",
                       "Crypto-economic validation not yet implemented")
      [] OTHER -> Attestation(trustType, "unknown", "")

recordAttestation(rep, trustType, read) ==
    [rep EXCEPT !.attestations = Append(@, attestationOf(trustType, read))]

\* endpointStatus.filter((e) => e.status === "reachable").length
reachableEndpoints(rep) ==
    Cardinality({i \in 1..Len(rep.endpointStatus) :
                    rep.endpointStatus[i].status = "reachable"})

\* mutant: "partial" asks for a reachable endpoint and a valid wallet
overallVerdict_BothForPartial(rep) ==
    IF Len(rep.issues) = 0 THEN "validated"
    ELSE IF reachableEndpoints(rep) = Len(rep.endpointStatus) /\ rep.walletStatus.valid
         THEN "validated-with-warnings"
    ELSE IF reachableEndpoints(rep) > 0 /\ rep.walletStatus.valid THEN "partial"
    ELSE "failed"

\* mutant: "validated" asks for a valid wallet as well
overallVerdict_ValidatedNeedsWallet(rep) ==
    IF Len(rep.issues) = 0 /\ rep.walletStatus.valid THEN "validated"
    ELSE IF reachableEndpoints(rep) = Len(rep.endpointStatus) /\ rep.walletStatus.valid
         THEN "validated-with-warnings"
    ELSE IF reachableEndpoints(rep) > 0 \/ rep.walletStatus.valid THEN "partial"
    ELSE "failed"

\* the verdict of a finished report
overallVerdict(rep) ==
    IF Len(rep.issues) = 0 THEN "validated"
    ELSE IF reachableEndpoints(rep) = Len(rep.endpointStatus) /\ rep.walletStatus.valid
         THEN "validated-with-warnings"
    ELSE IF reachableEndpoints(rep) > 0 \/ rep.walletStatus.valid THEN "partial"
    ELSE "failed"

\* registration documents of the validation runs: those of Docs and some
\* with other trust declarations
ValidateDocs ==
    Docs \cup {Doc(e, t, 51) : e \in {<<>>, <<"a2a", "web">>},
                              t \in {<<"crypto-economic", "reputation">>, <<"tee-attestation">>}}

\* ------------------------------------------------------------------------
\* TrustGatewayExecutor
\* ------------------------------------------------------------------------

\* a text is the sequence of its words
UserTexts ==
    {<<>>, <<"hello">>, <<"score", "agent">>,
     <<"Get", "trust", "score", "for", "agent", "42">>,
     <<"Validate", "agent", "#100">>,
     <<"agent", "7">>,
     <<"profile", "agent", "7", "score">>,
     <<"check", "Agent", "9", "reputation">>,
     <<"AGENT", "5", "HEALTH">>}

Part(kind, text) == [kind |-> kind, text |-> text]

Message(parts) == [kind |-> "message", role |-> "user", parts |-> parts]

UserMessages ==
    {Message(<<Part("text", t)>>) : t \in UserTexts}
    \cup {Message(<<>>), Message(<<Part("data", <<>>), Part("text", <<"agent", "7">>)>>)}

\* the text of the first text part, "" when there is none
userTextOf(msg) ==
    LET found == {i \in 1..Len(msg.parts) : msg.parts[i].kind = "text"}
    IN  IF found = {} THEN <<>>
        ELSE msg.parts[CHOOSE i \in found : \A j \in found : i <= j].text

\* toLowerCase of a word, and the /i flag
LowerWord(w) ==
    CASE w = "Agent" -> "agent" [] w = "AGENT" -> "agent" [] w = "Get" -> "get"
      [] w = "Validate" -> "validate" [] w = "HEALTH" -> "health" [] OTHER -> w

\* words that /#?\s*(\d+)/ matches, with the digits captured
Numbered == [w \in {"42", "#100", "7", "9", "5"} |-> IF w = "#100" THEN "100" ELSE w]

\* userText.match(/agent\s*(?:#?\s*)?(\d+)/i): the digits captured, "" for
\* no match
agentIdMatch(text) ==
    LET at == {i \in 1..(Len(text) - 1) :
                 LowerWord(text[i]) = "agent" /\ text[i + 1] \in DOMAIN Numbered}
    IN  IF at = {} THEN ""
        ELSE Numbered[text[(CHOOSE i \in at : \A j \in at : i <= j) + 1]]

\* userText.toLowerCase().includes(word)
includes(text, word) == \E i \in 1..Len(text) : LowerWord(text[i]) = word

\* the method execute calls for a text that names an agent
intentOf(text) ==
    IF includes(text, "profile") \/ includes(text, "identity") \/ includes(text, "details")
    THEN "getProfile"
    ELSE IF includes(text, "score") \/ includes(text, "trust") \/ includes(text, "reputation")
    THEN "getTrustScore"
    ELSE IF includes(text, "validate") \/ includes(text, "check") \/ includes(text, "health")
    THEN "validateAgent"
    ELSE "getProfile"

\* the texts execute answers with
PleaseSpecify == [kind |-> "usage"]

ErrorText(error) == [kind |-> "error", text |-> "Error: " \o error.message]

\* the wallet the executor shows: the metadata value whenever the read
\* succeeds, the owner otherwise
executorWallet(own, meta) == IF meta.ok THEN meta.value ELSE own

ProfileText(d, own, meta) ==
    [kind |-> "profile", owner |-> own, wallet |-> executorWallet(own, meta),
     endpoints |-> d.endpoints, supportedTrust |-> d.supportedTrust]

\* reputationClient.getSummary: the count and the average of the feedback
getSummary(fb) == [count |-> Count(fb), averageScore |-> avgScore(fb)]

\* getTrustScore from the registration file and the summary: the average
\* is a.a / a.k, so the raw score is taken over the denominator 10 a.k
getTrustScore(d, summary) ==
    LET feedbackCount == summary.count
        a == summary.averageScore
        maturity == (IF Len(d.endpoints) > 0 THEN 30 ELSE 0)
                    + (IF Len(d.supportedTrust) > 0 THEN 20 ELSE 0)
        confidence == Min(30, feedbackCount * 3)
        base == IF feedbackCount > 0 THEN a ELSE Num(50 * a.k, 0, a.k)
        raw == Num(10 * base.a + (3 * maturity + 2 * confidence) * base.k, 0, 10 * base.k)
        total == Min(100, Max(0, Round(raw)))
    IN  [kind |-> "score",
         trustScore |-> total,
         verdict |-> verdict(total),
         feedbackScore |-> Round(base),
         identityMaturity |-> maturity,
         reputationConfidence |-> confidence,
         count |-> feedbackCount]

\* what validateAgent has gathered
Gathered(wallet, endpointResults, issues) ==
    [wallet |-> wallet, endpointResults |-> endpointResults, issues |-> issues]

\* the body of the endpoint loop of validateAgent
executorRecordProbe(g, name, status) ==
    IF ProbeOk(status)
    THEN [g EXCEPT !.endpointResults = Append(@, name \o ": Reachable")]
    ELSE [g EXCEPT !.endpointResults = Append(@, name \o ": Unreachable"),
                   !.issues = Append(@, "Endpoint " \o name \o " is unreachable")]

\* the wallet check, the verdict and the report of validateAgent
ValidationText(d, g) ==
    LET walletValid == isValidAddress(g.wallet)
        issues == IF walletValid THEN g.issues
                  ELSE Append(g.issues, "Invalid wallet address format")
    IN  [kind |-> "validation",
         overall |-> IF Len(issues) = 0 THEN "Validated"
                     ELSE ToString(Len(issues)) \o " issue(s) found",
         endpoints |-> IF Len(d.endpoints) > 0 THEN g.endpointResults
                       ELSE <<"No endpoints declared">>,
         wallet |-> g.wallet,
         walletValid |-> walletValid,
         issues |-> issues]

\* what the event bus is called with
Published(text) ==
    [call |-> "publish", message |-> [kind |-> "message", role |-> "agent", text |-> text]]

Finished == [call |-> "finished"]

\* mutant: nothing is published for an error
publishAndFinish_SilentOnError(bus, text) ==
    IF text.kind = "error" THEN Append(bus, Finished)
    ELSE bus \o <<Published(text), Finished>>

\* eventBus.publish(response); eventBus.finished()
publishAndFinish(bus, text) == bus \o <<Published(text), Finished>>

\* ------------------------------------------------------------------------
\* Spec: one request through the app
\* ------------------------------------------------------------------------

Init ==
    /\ bypassPayments \in BOOLEAN
    /\ req = Request("", "", "none", <<>>, NoRaw, <<>>, NoInvoke)
    /\ pc = "idle"
    /\ jsonrpcBody = Undefined
    /\ log = <<>>
    /\ res = NoResponse
    /\ handler = ""
    /\ tokenUri = NoUri
    /\ fetchUrls = <<>>
    /\ idx = 0
    /\ lastStatus = 0
    /\ fetchLog = <<>>
    /\ doc = NoDoc
    /\ feedback = <<>>
    /\ score = NoScore
    /\ owner = <<>>
    /\ report = InitialReport
    /\ feedbackError = ""
    /\ timers = {}
    /\ elapsed = 0
    /\ userMessage = NoMessage
    /\ eventBus = <<>>
    /\ responseText = NoText

\* a request arrives
NewRequest ==
    /\ pc = "idle"
    /\ \E r \in Requests :
         /\ req' = r
         /\ pc' = IF r.path = "/a2a" THEN "a2a-middleware" ELSE "api-middleware"
    /\ UNCHANGED <<bypassPayments, jsonrpcBody, log, res, handler, resolveVars,
                   feedback, score, validateVars,
                   feedbackError,
                   probeVars, executorVars>>

\* the request is over and its context is dropped: requests share no state
\* but the configuration
EndRequest ==
    /\ pc = "done"
    /\ req' = Request("", "", "none", <<>>, NoRaw, <<>>, NoInvoke)
    /\ pc' = "idle"
    /\ jsonrpcBody' = Undefined
    /\ log' = <<>>
    /\ res' = NoResponse
    /\ handler' = ""
    /\ tokenUri' = NoUri
    /\ fetchUrls' = <<>>
    /\ idx' = 0
    /\ lastStatus' = 0
    /\ fetchLog' = <<>>
    /\ doc' = NoDoc
    /\ feedback' = <<>>
    /\ score' = NoScore
    /\ owner' = <<>>
    /\ report' = InitialReport
    /\ feedbackError' = ""
    /\ timers' = {}
    /\ elapsed' = 0
    /\ UNCHANGED <<bypassPayments, executorVars>>

\* the response is sent and the request is over
Respond(response) ==
    /\ res' = response
    /\ pc' = "done"

\* app.use("/a2a", ...)
A2AMiddleware ==
    /\ pc = "a2a-middleware"
    /\ LET g == a2aMiddleware(bypassPayments, req)
       IN  /\ log' = IF g.pay THEN Append(log, "paymentMiddleware") ELSE log
           /\ jsonrpcBody' = g.body
           /\ IF g.next
              THEN pc' = "a2a-route" /\ res' = res
              ELSE Respond(g.res)
    /\ UNCHANGED <<bypassPayments, req, handler, resolveVars, feedback, score, validateVars,
                   feedbackError,
                   probeVars, executorVars>>

\* a2a.post("/a2a", ...), or the router's 404 for another method
A2ARoute ==
    /\ pc = "a2a-route"
    /\ IF req.httpMethod = "POST"
       THEN \E outcome \in RuntimeOutcomes :
              LET h == a2aPost(jsonrpcBody, req, outcome)
              IN  /\ log' = IF h.handle THEN Append(log, "jsonRpcHandler.handle") ELSE log
                  /\ Respond(h.res)
       ELSE log' = log /\ Respond(RouteNotFound)
    /\ UNCHANGED <<bypassPayments, req, jsonrpcBody, handler, resolveVars, feedback, score, validateVars,
                   feedbackError,
                   probeVars, executorVars>>

\* app.use("/api/*", ...)
ApiMiddleware ==
    /\ pc = "api-middleware"
    /\ LET g == apiMiddleware(bypassPayments, req)
       IN  /\ log' = IF g.pay THEN Append(log, "paymentMiddleware") ELSE log
           /\ IF g.next
              THEN pc' = "api-route" /\ res' = res
              ELSE Respond(g.res)
    /\ UNCHANGED <<bypassPayments, req, jsonrpcBody, handler, resolveVars, feedback, score, validateVars,
                   feedbackError,
                   probeVars, executorVars>>

\* the /api router: the health route, a handler up to its first registry
\* call, or 404
ApiRoute ==
    /\ pc = "api-route"
    /\ LET h == RouteOf(req)
       IN  /\ handler' = h
           /\ IF h = "" THEN Respond(RouteNotFound)
              ELSE IF h = "health" THEN Respond(Response(200, 0, "health", ""))
              ELSE IF InputCheck(h, req) # NoResponse THEN Respond(InputCheck(h, req))
              ELSE pc' = "getTokenURI" /\ res' = res
    /\ UNCHANGED <<bypassPayments, req, jsonrpcBody, log, resolveVars, feedback, score, validateVars,
                   feedbackError,
                   probeVars, executorVars>>

\* where a handler continues once fetchRegistrationFile has returned
AfterResolve(h) == IF h = "score-invoke" THEN "readAllFeedback" ELSE "getOwner"

\* fetchRegistrationFile up to its first fetch: the registry read, the data
\* URI, the candidate list
GetTokenURI ==
    /\ pc = "getTokenURI"
    /\ log' = Append(log, "getTokenURI")
    /\ \/ /\ Respond(endpointError(ErrorMessageOf(handler), RegistryError("getTokenURI")))
          /\ UNCHANGED resolveVars
       \/ \E uri \in TokenUris :
            /\ tokenUri' = uri
            /\ IF parseDataUri(uri) # NoDoc
               THEN /\ doc' = parseDataUri(uri)
                    /\ pc' = AfterResolve(handler)
                    /\ UNCHANGED <<fetchUrls, idx, lastStatus>>
               ELSE /\ fetchUrls' = FetchCandidates(uri)
                    /\ idx' = 1
                    /\ lastStatus' = 500
                    /\ pc' = "fetch"
                    /\ doc' = doc
            /\ UNCHANGED <<res, fetchLog>>
    /\ UNCHANGED <<bypassPayments, req, jsonrpcBody, handler, feedback, score, validateVars,
                   feedbackError,
                   probeVars, executorVars>>

\* one pass of the loop of fetchRegistrationFile: the fetch of candidate idx
\* and what follows it, up to the next fetch or to the handler's response
FetchCandidate ==
    /\ pc = "fetch"
    /\ \E f \in FetchOutcomes(tokenUri) :
         LET step == FetchStep(lastStatus, f)
         IN  /\ fetchLog' = Append(fetchLog, [url |-> fetchUrls[idx], got |-> f])
             /\ lastStatus' = step.status
             /\ CASE step.kind = "return" ->
                       /\ doc' = f.doc
                       /\ pc' = AfterResolve(handler)
                       /\ UNCHANGED <<res, idx>>
                  [] step.kind = "throw" ->
                       /\ Respond(endpointError(ErrorMessageOf(handler), SyntaxError))
                       /\ UNCHANGED <<doc, idx>>
                  [] step.kind = "continue" /\ idx < Len(fetchUrls) ->
                       /\ idx' = idx + 1
                       /\ UNCHANGED <<pc, res, doc>>
                  [] OTHER ->
                       /\ Respond(endpointError(ErrorMessageOf(handler),
                                                RegistrationFileError(step.status)))
                       /\ UNCHANGED <<doc, idx>>
    /\ UNCHANGED <<bypassPayments, req, jsonrpcBody, log, handler, tokenUri, fetchUrls,
                   feedback, score, validateVars,
                   feedbackError,
                   probeVars, executorVars>>

\* mutant: the endpoints are probed whether or not the check was requested
StageFrom_ProbesUnrequested(phase, checks, d, rep) ==
    IF phase = "endpoints" /\ Len(rep.endpointStatus) < Len(d.endpoints)
    THEN "probe"
    ELSE IF phase \in {"endpoints", "wallet"} /\ Includes(checks, "wallet")
         THEN "checkWallet"
    ELSE IF Includes(checks, "attestations") /\ Len(rep.attestations) < Len(d.supportedTrust)
         THEN "attest"
    ELSE "done"

\* mutant: the wallet is checked whether or not the check was requested
StageFrom_WalletUnrequested(phase, checks, d, rep) ==
    IF /\ phase = "endpoints"
       /\ Includes(checks, "endpoints")
       /\ Len(rep.endpointStatus) < Len(d.endpoints)
    THEN "probe"
    ELSE IF phase \in {"endpoints", "wallet"}
         THEN "checkWallet"
    ELSE IF Includes(checks, "attestations") /\ Len(rep.attestations) < Len(d.supportedTrust)
         THEN "attest"
    ELSE "done"

\* where the validate handler stops next, from the given phase of its
\* checks on: at the probe of the next endpoint, at the wallet metadata
\* read, at the next declared trust type, or nowhere ("done")
StageFrom(phase, checks, d, rep) ==
    IF /\ phase = "endpoints"
       /\ Includes(checks, "endpoints")
       /\ Len(rep.endpointStatus) < Len(d.endpoints)
    THEN "probe"
    ELSE IF phase \in {"endpoints", "wallet"} /\ Includes(checks, "wallet")
         THEN "checkWallet"
    ELSE IF Includes(checks, "attestations") /\ Len(rep.attestations) < Len(d.supportedTrust)
         THEN "attest"
    ELSE "done"

\* mutant: the response is built without the verdict having been set
ValidateContinue_NoVerdict(stage, rep) ==
    IF stage = "done"
    THEN /\ report' = rep
         /\ Respond(Response(200, 0, "validate", ""))
    ELSE /\ report' = rep
         /\ pc' = stage
         /\ res' = res

\* the validate handler goes on to its next stop with the report rep, or
\* sets the verdict and responds when no check is left
ValidateContinue(stage, rep) ==
    IF stage = "done"
    THEN /\ report' = [rep EXCEPT !.overallVerdict = overallVerdict(rep)]
         /\ Respond(Response(200, 0, "validate", ""))
    ELSE /\ report' = rep
         /\ pc' = stage
         /\ res' = res

\* identity.getOwner
GetOwner ==
    /\ pc = "getOwner"
    /\ log' = Append(log, "getOwner")
    /\ \/ /\ Respond(endpointError(ErrorMessageOf(handler), RegistryError("getOwner")))
          /\ UNCHANGED validateVars
       \/ /\ owner' = OwnerAddress
          /\ IF handler = "validate-invoke"
             THEN ValidateContinue(
                      StageFrom("endpoints", checksOf(req.invoke.checks), doc, InitialReport),
                      InitialReport)
             ELSE pc' = "getMetadata" /\ res' = res /\ report' = report
    /\ UNCHANGED <<bypassPayments, req, jsonrpcBody, handler, resolveVars, feedback, score,
                   feedbackError,
                   probeVars, executorVars>>

\* identity.getMetadata(agentId, "agentWallet"), whose failure is caught, and
\* the rest of the profile handlers
GetMetadata ==
    /\ pc = "getMetadata"
    /\ handler \in {"profile", "profile-invoke"}
    /\ log' = Append(log, "getMetadata")
    /\ Respond(Response(200, 0, "profile", ""))
    /\ UNCHANGED <<bypassPayments, req, jsonrpcBody, handler, resolveVars, feedback, score, validateVars,
                   feedbackError,
                   probeVars, executorVars>>

\* readFeedbackSafe and the rest of the score handler, the registry
\* returning one of the collections of S or failing
ReadFeedbackFrom(S) ==
    /\ pc = "readAllFeedback"
    /\ log' = Append(log, "readAllFeedback")
    /\ \E read \in FeedbackReads(S) :
         LET allFeedback == readFeedbackSafe(read)
         IN  /\ feedbackError' = read.message
             /\ feedback' = allFeedback.scores
             /\ score' = ScoreOutput(doc, allFeedback.scores, allFeedback.warning)
    /\ Respond(Response(200, 0, "score", ""))
    /\ UNCHANGED <<bypassPayments, req, jsonrpcBody, handler, resolveVars, validateVars,
                   probeVars, executorVars>>

ReadFeedback == ReadFeedbackFrom(SampleFeedback)

\* the endpoint loop of the validate handler reaches its next endpoint: the
\* timer is armed and the HEAD request sent
StartProbe ==
    /\ pc = "probe"
    /\ log' = Append(log, "probe")
    /\ timers' = setTimeout(timers, Len(report.endpointStatus) + 1)
    /\ pc' = "probing"
    /\ UNCHANGED <<bypassPayments, req, jsonrpcBody, res, handler, resolveVars, feedback,
                   score, validateVars, feedbackError, elapsed, executorVars>>

\* the awaited HEAD probe of the validate handler settles, with a status of
\* S or by the timer: the timer is cleared and the result recorded, and the
\* loop goes on
ProbeEndpointFrom(S) ==
    /\ pc = "probing"
    /\ \E probed \in ProbesOf(S) :
         LET k == Len(report.endpointStatus) + 1
             rep == recordProbe(report, doc.endpoints[k], probed.status)
         IN  /\ timers' = clearTimeout(expire(timers, k, probed), k)
             /\ elapsed' = elapsed + probed.ms
             /\ ValidateContinue(StageFrom("endpoints", checksOf(req.invoke.checks), doc, rep),
                                 rep)
    /\ UNCHANGED <<bypassPayments, req, jsonrpcBody, log, handler, resolveVars, feedback,
                   score, owner, feedbackError, executorVars>>

\* the wallet check of the validate handler, the metadata read giving one
\* of the outcomes of S
CheckWalletFrom(S) ==
    /\ pc = "checkWallet"
    /\ log' = Append(log, "getMetadata")
    /\ \E meta \in S :
         LET rep == recordWallet(report, owner, meta)
         IN  ValidateContinue(StageFrom("attestations", checksOf(req.invoke.checks), doc, rep),
                              rep)
    /\ UNCHANGED <<bypassPayments, req, jsonrpcBody, handler, resolveVars, feedback, score,
                   owner, feedbackError,
                   probeVars, executorVars>>

\* one pass of the attestation loop of the validate handler; the feedback
\* read of a "reputation" declaration gives a collection of S or fails
AttestFrom(S) ==
    /\ pc = "attest"
    /\ LET trustType == doc.supportedTrust[Len(report.attestations) + 1]
           reads == IF trustType = "reputation" THEN FeedbackReads(S) ELSE {FeedbackFailure}
       IN  /\ log' = IF trustType = "reputation" THEN Append(log, "readAllFeedback") ELSE log
           /\ \E read \in reads :
                LET rep == recordAttestation(report, trustType, read)
                IN  /\ feedback' = IF trustType = "reputation"
                                   THEN readFeedbackSafe(read).scores ELSE feedback
                    /\ feedbackError' = IF trustType = "reputation"
                                        THEN read.message ELSE feedbackError
                    /\ ValidateContinue(
                           StageFrom("attestations", checksOf(req.invoke.checks), doc, rep), rep)
    /\ UNCHANGED <<bypassPayments, req, jsonrpcBody, handler, resolveVars, score, owner,
                   probeVars, executorVars>>

ProbeEndpoint == ProbeEndpointFrom(SampleProbeOutcomes)

CheckWallet == CheckWalletFrom(SampleWalletMetadata)

Attest == AttestFrom({<<>>, <<Run(75, 1)>>})

Next ==
    \/ NewRequest
    \/ EndRequest
    \/ A2AMiddleware
    \/ A2ARoute
    \/ ApiMiddleware
    \/ ApiRoute
    \/ GetTokenURI
    \/ FetchCandidate
    \/ GetOwner
    \/ GetMetadata
    \/ ReadFeedback
    \/ StartProbe
    \/ ProbeEndpoint
    \/ CheckWallet
    \/ Attest

Spec == Init /\ [][Next]_vars

\* ------------------------------------------------------------------------
\* SpecScore: the score handler from its feedback read on, for every
\* registration document and every feedback collection within the bounds
\* ------------------------------------------------------------------------

\* a score request that has passed the gate and the input check and whose
\* registration file came inline in the token URI
InitScore ==
    /\ bypassPayments \in BOOLEAN
    /\ req = Request("/api/agent/score/invoke", "POST", "valid", <<>>, NoRaw, <<>>,
                     InvokeBody("ok", AgentIdVal("string", <<"7">>, 0)))
    /\ pc = "readAllFeedback"
    /\ jsonrpcBody = Undefined
    /\ log = IF bypassPayments THEN <<"getTokenURI">>
             ELSE <<"paymentMiddleware", "getTokenURI">>
    /\ res = NoResponse
    /\ handler = "score-invoke"
    /\ \E d \in Docs : tokenUri = Uri("data", "object", d) /\ doc = d
    /\ fetchUrls = <<>>
    /\ idx = 0
    /\ lastStatus = 0
    /\ fetchLog = <<>>
    /\ feedback = <<>>
    /\ score = NoScore
    /\ owner = <<>>
    /\ report = InitialReport
    /\ feedbackError = ""
    /\ timers = {}
    /\ elapsed = 0
    /\ userMessage = NoMessage
    /\ eventBus = <<>>
    /\ responseText = NoText

ScoreFeedback == ReadFeedbackFrom(Feedbacks)

NextScore == ScoreFeedback

SpecScore == InitScore /\ [][NextScore]_vars

\* ------------------------------------------------------------------------
\* SpecValidate: the validate handler from its owner read on, for every
\* accepted list of checks, every registration document of ValidateDocs and
\* every outcome of the probes, the metadata read and the feedback read
\* ------------------------------------------------------------------------

\* a validate request that has passed the gate and the input check and
\* whose registration file came inline in the token URI
InitValidate ==
    /\ bypassPayments \in BOOLEAN
    /\ \E c \in {v \in ChecksValues : checksSchema(v)} :
         req = Request("/api/agent/validate/invoke", "POST", "valid", <<>>, NoRaw, <<>>,
                       ValidateBody(AgentIdVal("string", <<"7">>, 0), c))
    /\ pc = "getOwner"
    /\ jsonrpcBody = Undefined
    /\ log = IF bypassPayments THEN <<"getTokenURI">>
             ELSE <<"paymentMiddleware", "getTokenURI">>
    /\ res = NoResponse
    /\ handler = "validate-invoke"
    /\ \E d \in ValidateDocs : tokenUri = Uri("data", "object", d) /\ doc = d
    /\ fetchUrls = <<>>
    /\ idx = 0
    /\ lastStatus = 0
    /\ fetchLog = <<>>
    /\ feedback = <<>>
    /\ score = NoScore
    /\ owner = <<>>
    /\ report = InitialReport
    /\ feedbackError = ""
    /\ timers = {}
    /\ elapsed = 0
    /\ userMessage = NoMessage
    /\ eventBus = <<>>
    /\ responseText = NoText

ProbeAnyEndpoint == ProbeEndpointFrom(ProbeOutcomes)

CheckAnyWallet == CheckWalletFrom(WalletMetadata)

AttestAny == AttestFrom(SampleFeedback)

NextValidate ==
    \/ GetOwner
    \/ StartProbe
    \/ ProbeAnyEndpoint
    \/ CheckAnyWallet
    \/ AttestAny

SpecValidate == InitValidate /\ [][NextValidate]_vars

\* ------------------------------------------------------------------------
\* SpecExecutor: one call of execute or cancelTask of TrustGatewayExecutor,
\* for every message of UserMessages and every outcome of the registry
\* calls and the probes
\* ------------------------------------------------------------------------

InitExecutor ==
    /\ bypassPayments = FALSE
    /\ req = Request("", "", "none", <<>>, NoRaw, <<>>, NoInvoke)
    /\ pc \in {"execute", "cancelTask"}
    /\ jsonrpcBody = Undefined
    /\ log = <<>>
    /\ res = NoResponse
    /\ handler = ""
    /\ tokenUri = NoUri
    /\ fetchUrls = <<>>
    /\ idx = 0
    /\ lastStatus = 0
    /\ fetchLog = <<>>
    /\ doc = NoDoc
    /\ feedback = <<>>
    /\ score = NoScore
    /\ owner = <<>>
    /\ report = Gathered(<<>>, <<>>, <<>>)
    /\ feedbackError = ""
    /\ timers = {}
    /\ elapsed = 0
    /\ userMessage \in UserMessages
    /\ eventBus = <<>>
    /\ responseText = NoText

\* the end of execute: the response message is published and the bus told
\* the work is finished
Reply(text) ==
    /\ responseText' = text
    /\ eventBus' = publishAndFinish(eventBus, text)
    /\ pc' = "done"

\* execute up to its first registry call
Execute ==
    /\ pc = "execute"
    /\ LET userText == userTextOf(userMessage)
       IN  IF agentIdMatch(userText) = ""
           THEN Reply(PleaseSpecify) /\ handler' = handler
           ELSE /\ handler' = intentOf(userText)
                /\ pc' = "getRegistrationFile"
                /\ UNCHANGED <<eventBus, responseText>>
    /\ UNCHANGED <<bypassPayments, req, jsonrpcBody, log, res, resolveVars, feedback, score,
                   validateVars, feedbackError, probeVars, userMessage>>

\* identityClient.getRegistrationFile, the first call of the three methods
GetRegistrationFile ==
    /\ pc = "getRegistrationFile"
    /\ log' = Append(log, "getRegistrationFile")
    /\ \/ /\ Reply(ErrorText(RegistryError("getRegistrationFile")))
          /\ doc' = doc
       \/ /\ doc' \in Docs
          /\ pc' = IF handler = "getTrustScore" THEN "getSummary" ELSE "executor-getOwner"
          /\ UNCHANGED <<eventBus, responseText>>
    /\ UNCHANGED <<bypassPayments, req, jsonrpcBody, res, handler, tokenUri, fetchUrls, idx,
                   lastStatus, fetchLog, feedback, score, validateVars, feedbackError,
                   probeVars, userMessage>>

\* reputationClient.getSummary and the rest of getTrustScore
GetSummary ==
    /\ pc = "getSummary"
    /\ log' = Append(log, "getSummary")
    /\ \/ /\ Reply(ErrorText(RegistryError("getSummary")))
          /\ feedback' = feedback
       \/ \E fb \in Feedbacks :
            /\ feedback' = fb
            /\ Reply(getTrustScore(doc, getSummary(fb)))
    /\ UNCHANGED <<bypassPayments, req, jsonrpcBody, res, handler, resolveVars, score,
                   validateVars, feedbackError, probeVars, userMessage>>

\* identityClient.getOwner in getProfile and validateAgent
ExecutorGetOwner ==
    /\ pc = "executor-getOwner"
    /\ log' = Append(log, "getOwner")
    /\ \/ /\ Reply(ErrorText(RegistryError("getOwner")))
          /\ owner' = owner
       \/ /\ owner' = OwnerAddress
          /\ pc' = "executor-getMetadata"
          /\ UNCHANGED <<eventBus, responseText>>
    /\ UNCHANGED <<bypassPayments, req, jsonrpcBody, res, handler, resolveVars, feedback,
                   score, report, feedbackError, probeVars, userMessage>>

\* where validateAgent stops next: at the probe of the next endpoint, or
\* nowhere
ExecutorContinue(g) ==
    IF Len(g.endpointResults) < Len(doc.endpoints)
    THEN /\ report' = g
         /\ pc' = "executor-probe"
         /\ UNCHANGED <<eventBus, responseText>>
    ELSE /\ report' = g
         /\ Reply(ValidationText(doc, g))

\* identityClient.getMetadata(agentId, "agentWallet"), whose failure is
\* caught, and what follows it up to the next await
ExecutorGetMetadata ==
    /\ pc = "executor-getMetadata"
    /\ log' = Append(log, "getMetadata")
    /\ \E meta \in WalletMetadata :
         IF handler = "getProfile"
         THEN Reply(ProfileText(doc, owner, meta)) /\ report' = report
         ELSE ExecutorContinue(Gathered(executorWallet(owner, meta), <<>>, <<>>))
    /\ UNCHANGED <<bypassPayments, req, jsonrpcBody, res, handler, resolveVars, feedback,
                   score, owner, feedbackError, probeVars, userMessage>>

\* the endpoint loop of validateAgent reaches its next endpoint: the timer
\* is armed and the HEAD request sent
ExecutorStartProbe ==
    /\ pc = "executor-probe"
    /\ log' = Append(log, "probe")
    /\ timers' = setTimeout(timers, Len(report.endpointResults) + 1)
    /\ pc' = "executor-probing"
    /\ UNCHANGED <<bypassPayments, req, jsonrpcBody, res, handler, resolveVars, feedback,
                   score, validateVars, feedbackError, elapsed, executorVars>>

\* the awaited HEAD probe of validateAgent settles: the timer is cleared
\* and the result recorded, and the loop goes on
ExecutorProbe ==
    /\ pc = "executor-probing"
    /\ \E probed \in ProbesOf(ProbeOutcomes) :
         LET k == Len(report.endpointResults) + 1
         IN  /\ timers' = clearTimeout(expire(timers, k, probed), k)
             /\ elapsed' = elapsed + probed.ms
             /\ ExecutorContinue(executorRecordProbe(report, doc.endpoints[k], probed.status))
    /\ UNCHANGED <<bypassPayments, req, jsonrpcBody, log, res, handler, resolveVars,
                   feedback, score, owner, feedbackError, userMessage>>

\* cancelTask
CancelTask ==
    /\ pc = "cancelTask"
    /\ eventBus' = Append(eventBus, Finished)
    /\ pc' = "done"
    /\ UNCHANGED <<bypassPayments, req, jsonrpcBody, log, res, handler, resolveVars,
                   feedback, score, validateVars, feedbackError, probeVars, userMessage,
                   responseText>>

NextExecutor ==
    \/ Execute
    \/ GetRegistrationFile
    \/ GetSummary
    \/ ExecutorGetOwner
    \/ ExecutorGetMetadata
    \/ ExecutorStartProbe
    \/ ExecutorProbe
    \/ CancelTask

SpecExecutor == InitExecutor /\ [][NextExecutor]_vars

\* ------------------------------------------------------------------------
\* SpecProbes: the two endpoint loops, that of the validate handler and
\* that of validateAgent, each from the start of its run
\* ------------------------------------------------------------------------

InitProbes == InitValidate \/ InitExecutor

NextProbes ==
    \/ GetOwner
    \/ StartProbe
    \/ ProbeAnyEndpoint
    \/ CheckAnyWallet
    \/ AttestAny
    \/ Execute
    \/ GetRegistrationFile
    \/ GetSummary
    \/ ExecutorGetOwner
    \/ ExecutorGetMetadata
    \/ ExecutorStartProbe
    \/ ExecutorProbe
    \/ CancelTask

SpecProbes == InitProbes /\ [][NextProbes]_vars


\* ------------------------------------------------------------------------
\* Properties
\* ------------------------------------------------------------------------

Invoked(call) == \E i \in 1..Len(log) : log[i] = call

RegistryReads == {"getTokenURI", "getOwner", "getMetadata", "readAllFeedback"}

NoRegistryRead == \A i \in 1..Len(log) : log[i] \notin RegistryReads

\* Content-Type headers under which a non-empty body is read as JSON
JsonContentTypes ==
    {<<>>,
     <<Seg("application", "", "json")>>,
     <<Seg("application", "", "json"), Seg("charset", "", "utf-8")>>,
     <<Seg("application", "ld", "json")>>,
     <<Seg("text", "", "plain")>>}

\* the request is a POST /a2a whose body is read as a JSON object naming a
\* paid method
PaidA2ARequest ==
    /\ req.path = "/a2a"
    /\ req.httpMethod = "POST"
    /\ req.contentType \in JsonContentTypes
    /\ req.raw.k = "json"
    /\ req.raw.v.t = "object"
    /\ req.raw.v.method \in {"message/send", "message/stream"}

\* C1: a POST /a2a with a JSON object naming message/send or message/stream,
\* the bypass off and no valid payment proof, is answered 402 by the payment
\* middleware, which is the only capability invoked: the JSON-RPC runtime is
\* never called for it.  And whenever the runtime is called for a paid method
\* with the bypass off, the payment middleware was called first.
C1_PaymentGateBeforeDispatch ==
    /\ (PaidA2ARequest /\ ~bypassPayments /\ req.proof # "valid")
         => /\ ~Invoked("jsonRpcHandler.handle")
            /\ pc \in {"a2a-middleware", "done"}
            /\ pc = "done" => (res.status = 402 /\ log = <<"paymentMiddleware">>)
    /\ (PaidA2ARequest /\ ~bypassPayments /\ Invoked("jsonRpcHandler.handle"))
         => log = <<"paymentMiddleware", "jsonRpcHandler.handle">>

C1_Witness ==
    /\ PaidA2ARequest /\ ~bypassPayments /\ req.proof = "none"
    /\ req.raw.v.method = "message/stream"
    /\ pc = "done" /\ res.status = 402

\* the request is a /a2a request whose body names no paid method: it has no
\* method, a method that is not a string, or a method outside the paid set,
\* or it is no JSON object at all
UnpaidA2ARequest ==
    /\ req.path = "/a2a"
    /\ \/ req.raw.k # "json"
       \/ req.raw.v.t # "object"
       \/ req.raw.v.method \notin {"message/send", "message/stream"}

\* C2: a /a2a request whose body has no method, a non-string method or a
\* method outside {message/send, message/stream} never invokes the payment
\* middleware and is never answered 402, whatever the bypass flag and the
\* proof header are.
C2_UnpaidMethodsSkipPayment ==
    UnpaidA2ARequest => (~Invoked("paymentMiddleware") /\ res.status # 402)

C2_Witness ==
    /\ req.path = "/a2a" /\ req.httpMethod = "POST"
    /\ req.raw.k = "json" /\ req.raw.v.t = "object" /\ req.raw.v.method = "tasks/get"
    /\ ~bypassPayments /\ req.proof = "none"
    /\ pc = "done" /\ res.status = 200 /\ Invoked("jsonRpcHandler.handle")

\* C3: with the bypass off, every request under /api/ other than /api/health
\* that carries no valid proof is answered 402, and no route handler runs.
C3_UnlistedApiPathsNeedPayment ==
    (/\ req.path \in ApiPaths \ {"/api/health"}
     /\ ~bypassPayments
     /\ req.proof # "valid")
        => /\ handler = ""
           /\ pc = "done" => res.status = 402

\* C4: with the bypass flag set no request invokes the payment middleware,
\* and with the flag off a request for /api/health does not invoke it either.
C4_BypassAndFreeListSkipPayment ==
    (bypassPayments \/ req.path = "/api/health") => ~Invoked("paymentMiddleware")

C4_Witness ==
    /\ bypassPayments /\ PaidA2ARequest /\ req.proof = "none"
    /\ pc = "done" /\ Invoked("jsonRpcHandler.handle")

\* strings of one or more decimal digits
DigitStrings == {s \in IdStrings : s # <<>> /\ \A i \in 1..Len(s) : s[i] \in {"0", "7"}}

\* the agentId a handler was given is not a non-negative integer
InvalidAgentId ==
    \/ handler = "profile" /\ req.id \notin DigitStrings
    \/ /\ handler \in {"profile-invoke", "score-invoke", "validate-invoke"}
       /\ req.invoke.env = "ok"
       /\ \/ req.invoke.agentId.t = "string" /\ req.invoke.agentId.s \notin DigitStrings
          \/ req.invoke.agentId.t = "number" /\ req.invoke.agentId.n \in {-2, -1, 3}

\* C5: a profile, score or validate handler given an agentId that is no
\* string of digits (or, in an invoke body, no non-negative integer) answers
\* 400 with the validation errors and makes no registry read.
C5_InvalidAgentIdRejected ==
    InvalidAgentId
        => /\ NoRegistryRead
           /\ pc = "done"
           /\ res.status = 400
           /\ res.details = "validation-errors"

C5_Witness ==
    /\ handler = "score-invoke" /\ req.invoke.env = "ok"
    /\ req.invoke.agentId = AgentIdVal("string", <<"7", "x">>, 0)
    /\ pc = "done" /\ res.status = 400

\* the fetch returned a 2xx response
Success(entry) == entry.got.status = 200

\* C6: the first candidate answering 2xx ends the loop of
\* fetchRegistrationFile: no candidate is fetched after it, and when its body
\* is a JSON document that document is the registration file returned.
C6_FirstSuccessShortCircuits ==
    \A i \in 1..Len(fetchLog) :
        Success(fetchLog[i])
            => /\ i = Len(fetchLog)
               /\ pc # "fetch"
               /\ fetchLog[i].got.json => (doc = fetchLog[i].got.doc /\ doc # NoDoc)

C6_Witness ==
    /\ tokenUri.scheme = "ipfs"
    /\ Len(fetchLog) = 2
    /\ fetchLog[1].url = "ipfs.io" /\ fetchLog[1].got.status = 404
    /\ fetchLog[2].url = "cloudflare-ipfs.com" /\ Success(fetchLog[2])
    /\ doc = fetchLog[2].got.doc /\ doc # NoDoc
    /\ pc = "done" /\ res.status = 200

\* the token URI is an inline data:application/json;base64 URI holding a
\* JSON document
InlineDocument == tokenUri.scheme = "data" /\ tokenUri.payload = "object"

\* the registry reads made so far
RegistryLog == SelectSeq(log, LAMBDA call : call \in RegistryReads)

\* C7: for an inline data: URI holding a JSON document, fetchRegistrationFile
\* returns that document without any HTTP fetch; when it returns, the token
\* URI read is the only registry call made.
C7_DataUriNeedsNoFetch ==
    InlineDocument
        => /\ fetchLog = <<>>
           /\ fetchUrls = <<>>
           /\ doc = tokenUri.doc
           /\ pc # "fetch"
           /\ pc \in {"getOwner", "readAllFeedback"} => RegistryLog = <<"getTokenURI">>

C7_Witness ==
    /\ InlineDocument /\ fetchLog = <<>>
    /\ handler = "profile" /\ pc = "done" /\ res.status = 200

\* every candidate fetched failed: no response, or a status that is not 2xx
NoCandidateSucceeded ==
    fetchLog # <<>> /\ \A i \in 1..Len(fetchLog) : ~Success(fetchLog[i])

\* the status the last candidate fetched left: 502 for no response
LastCandidateStatus ==
    LET got == fetchLog[Len(fetchLog)].got
    IN  IF got.status = 0 THEN 502 ELSE got.status

\* C8: when no candidate succeeds, every candidate has been tried, the
\* failure carries the status of the last one (502 for a transport failure),
\* and the response is 404 exactly when that status is 404 and 5xx otherwise.
C8_LastStatusDecides ==
    (pc = "done" /\ NoCandidateSucceeded)
        => /\ Len(fetchLog) = Len(fetchUrls)
           /\ lastStatus = LastCandidateStatus
           /\ res.status = 404 <=> LastCandidateStatus = 404
           /\ LastCandidateStatus # 404 => res.status \in 500..599

C8_Witness ==
    /\ pc = "done" /\ Len(fetchLog) = 3
    /\ fetchLog[1].got.status = 404
    /\ fetchLog[2].got.status = 404
    /\ fetchLog[3].got.status = 0
    /\ res.status = 500

\* round(clamp(x, 0, 100))
RoundOfClamp(x) ==
    IF Below(x, 0) THEN 0 ELSE IF Above(x, 100) THEN 100 ELSE Round(x)

\* C9: the trust score of a score response is an integer in 0..100, and
\* clamping the rounded raw score gives what rounding the clamped raw score
\* gives.
C9_ScoreInRange ==
    (pc = "done" /\ res.kind = "score")
        => /\ score.trustScore \in 0..100
           /\ score.trustScore = RoundOfClamp(rawScore(doc, feedback))

C9_Witness ==
    /\ pc = "done" /\ res.kind = "score"
    /\ feedback = <<Run(100, 11), Run(100, 11)>>
    /\ Above(rawScore(doc, feedback), 100)
    /\ score.trustScore = 100

\* the verdict bands, each including its lower bound
Band(s) ==
    CASE s \in 80..100 -> "highly-trusted"
      [] s \in 60..79 -> "trusted"
      [] s \in 40..59 -> "neutral"
      [] s \in 20..39 -> "low-trust"
      [] s \in 0..19 -> "untrusted"

\* C10: the verdict of a score response is the band of its integer score:
\* 80 and above highly-trusted, 60..79 trusted, 40..59 neutral, 20..39
\* low-trust, 0..19 untrusted.
C10_VerdictBands ==
    (pc = "done" /\ res.kind = "score") => score.verdict = Band(score.trustScore)

C10_Witness ==
    /\ pc = "done" /\ res.kind = "score"
    /\ score.trustScore = 80 /\ score.verdict = "highly-trusted"

\* the number x is 0
IsZero(x) == ~Above(x, 0) /\ ~Below(x, 0)

\* C11: a score computed on an empty feedback collection uses the base
\* score 50 and a reputation confidence of 0 (volume and consistency both
\* 0), so that the trust score is 50 plus three tenths of the identity
\* maturity.
C11_EmptyFeedbackIsNeutral ==
    (pc = "done" /\ res.kind = "score" /\ score.count = 0)
        => /\ feedback = <<>>
           /\ score.feedbackScore = 50
           /\ ~Above(effectiveBaseScore(feedback), 50)
           /\ ~Below(effectiveBaseScore(feedback), 50)
           /\ volumeScore(feedback) = 0
           /\ IsZero(consistencyScore(feedback))
           /\ IsZero(score.reputationConfidence)
           /\ score.trustScore = 50 + (3 * score.identityMaturity) \div 10

C11_Witness ==
    /\ pc = "done" /\ res.kind = "score" /\ score.count = 0
    /\ score.warning = ""
    /\ score.identityMaturity = 60 /\ score.trustScore = 68

\* the request is a validate request that was answered with its report
ValidateResponse == pc = "done" /\ res.status = 200 /\ res.kind = "validate"

\* the checks the validate request asks for
RequestedChecks == checksOf(req.invoke.checks)

\* every requested check has run over all it applies to
AllChecksFinished ==
    /\ Includes(RequestedChecks, "endpoints")
          => Len(report.endpointStatus) = Len(doc.endpoints)
    /\ Includes(RequestedChecks, "wallet") => Invoked("getMetadata")
    /\ Includes(RequestedChecks, "attestations")
          => Len(report.attestations) = Len(doc.supportedTrust)

TerminalVerdicts == {"validated", "validated-with-warnings", "partial", "failed"}

\* C12: a validate response never carries the verdict "pending": the
\* verdict stays pending while checks are running and is one of the four
\* terminal values, set after every requested check has finished, in the
\* report that is returned.
C12_VerdictNeverPending ==
    handler = "validate-invoke"
        => IF ValidateResponse
           THEN report.overallVerdict \in TerminalVerdicts /\ AllChecksFinished
           ELSE report.overallVerdict = "pending"

C12_Witness ==
    /\ ValidateResponse
    /\ RequestedChecks = <<"endpoints", "wallet", "attestations">>
    /\ Len(report.endpointStatus) = 2 /\ Len(report.attestations) = 3
    /\ report.overallVerdict = "failed"

\* the rows of the decision table, on the returned report
NoIssues == report.issues = <<>>

AllEndpointsReachable ==
    \A i \in 1..Len(report.endpointStatus) : report.endpointStatus[i].status = "reachable"

SomeEndpointReachable ==
    \E i \in 1..Len(report.endpointStatus) : report.endpointStatus[i].status = "reachable"

\* C13: the verdict of a validate response follows the decision table in
\* order: no issues gives validated; else all recorded endpoints reachable
\* and the wallet valid gives validated-with-warnings; else some endpoint
\* reachable or the wallet valid gives partial; else failed.
C13_VerdictDecisionTable ==
    ValidateResponse
        => report.overallVerdict =
             IF NoIssues THEN "validated"
             ELSE IF AllEndpointsReachable /\ report.walletStatus.valid
                  THEN "validated-with-warnings"
             ELSE IF SomeEndpointReachable \/ report.walletStatus.valid THEN "partial"
             ELSE "failed"

C13_Witness ==
    /\ ValidateResponse
    /\ SomeEndpointReachable /\ ~AllEndpointsReachable
    /\ Invoked("getMetadata") /\ ~report.walletStatus.valid
    /\ report.overallVerdict = "partial"

\* the request asks for the wallet check only
WalletOnly ==
    handler = "validate-invoke" /\ req.invoke.checks = ChecksVal("array", <<"wallet">>)

\* letters that differ in case only
CasePairs ==
    {{"a", "A"}, {"b", "B"}, {"c", "C"}, {"d", "D"}, {"e", "E"}, {"f", "F"}, {"x", "X"}}

SameIgnoringCase(s, t) ==
    /\ Len(s) = Len(t)
    /\ \A i \in 1..Len(s) : s[i] = t[i] \/ {s[i], t[i]} \in CasePairs

\* C14: a validate request for the wallet check only issues no endpoint
\* probe and leaves endpointStatus empty whatever the agent declares, and
\* its report says isOwner when the resolved wallet is the owner address up
\* to letter case.
C14_WalletOnlyProbesNothing ==
    WalletOnly
        => /\ ~Invoked("probe")
           /\ report.endpointStatus = <<>>
           /\ (ValidateResponse /\ SameIgnoringCase(report.walletStatus.address, owner))
                 => report.walletStatus.isOwner

C14_Witness ==
    /\ WalletOnly /\ ValidateResponse
    /\ Len(doc.endpoints) = 2
    /\ report.walletStatus.address # owner
    /\ SameIgnoringCase(report.walletStatus.address, owner)
    /\ report.walletStatus.isOwner

\* a POST /a2a with a body that is not empty and not whitespace only
NonEmptyA2APost ==
    req.path = "/a2a" /\ req.httpMethod = "POST" /\ req.raw.k \in {"garbage", "json"}

\* the Content-Type header has a segment application/json, application/x+json
\* or text/plain
ListedContentType ==
    \E i \in 1..Len(req.contentType) :
       \/ req.contentType[i].main = "application" /\ req.contentType[i].sub = "json"
       \/ req.contentType[i] = Seg("text", "", "plain")

\* the request has no Content-Type header
NoContentType == req.contentType = <<>>

\* the request is turned down with the JSON-RPC error code and id null and
\* reaches neither the payment middleware nor the runtime
RejectedWith(code) ==
    /\ ~Invoked("paymentMiddleware")
    /\ ~Invoked("jsonRpcHandler.handle")
    /\ pc = "done" => res = jsonRpcError(NullId, code)

\* C15 as stated: a non-empty POST /a2a body is read as JSON only under
\* application/json, a +json subtype or text/plain; under anything else it
\* is answered -32600 with id null, without payment verification or runtime.
C15_OnlyListedContentTypes ==
    (NonEmptyA2APost /\ ~ListedContentType) => RejectedWith(-32600)

\* C15, amended: a non-empty POST /a2a body whose Content-Type header is
\* present and is not application/json, a +json subtype or text/plain is
\* answered -32600 with id null, whatever the payload, and reaches neither
\* payment verification nor the runtime; a request without the header is
\* read as JSON.
C15_OtherContentTypesRejected ==
    /\ (NonEmptyA2APost /\ ~ListedContentType /\ ~NoContentType)
          => (RejectedWith(-32600) /\ pc \in {"a2a-middleware", "done"})
    /\ (NonEmptyA2APost /\ NoContentType /\ req.raw.k = "json" /\ pc = "done")
          => res # jsonRpcError(NullId, -32600) \/ NotAnObject(req.raw.v)

C15_Witness ==
    /\ NonEmptyA2APost /\ req.contentType = <<Seg("text", "", "csv")>>
    /\ req.raw.k = "json" /\ req.raw.v = JsonVal("object", "message/send")
    /\ ~bypassPayments /\ req.proof = "none"
    /\ pc = "done" /\ res.rpc = -32600 /\ res.id = NullId

\* a POST /a2a whose body is not JSON, under a content type the parser reads
MalformedA2APost ==
    /\ NonEmptyA2APost
    /\ req.raw.k = "garbage"
    /\ ListedContentType \/ NoContentType

\* C16: a non-empty POST /a2a body of an accepted content type that is not
\* valid JSON is answered, with HTTP 200, by the JSON-RPC error -32700 with
\* id null; it reaches neither payment verification nor the runtime and is
\* never answered 402.
C16_MalformedJsonIsParseError ==
    MalformedA2APost
        => /\ RejectedWith(-32700)
           /\ res.status # 402
           /\ pc = "done" => res.status = 200

C16_Witness ==
    /\ MalformedA2APost /\ req.contentType = <<Seg("application", "", "json")>>
    /\ ~bypassPayments /\ req.proof = "none"
    /\ pc = "done" /\ res.rpc = -32700 /\ res.id = NullId /\ res.status = 200

\* a POST /a2a whose body parses to a value that is no JSON object: null, a
\* boolean, a number, a string, or an array
NonObjectA2APost ==
    /\ NonEmptyA2APost
    /\ req.raw.k = "json"
    /\ ListedContentType \/ NoContentType
    /\ req.raw.v.t \in {"null", "false", "zero", "number", "string", "array"}

\* C17: a POST /a2a body that parses to anything but a JSON object, or to an
\* array (also one whose elements name a paid method), is answered -32600;
\* it is never passed to the runtime and never triggers payment verification.
C17_NonObjectBodyIsInvalidRequest ==
    NonObjectA2APost => RejectedWith(-32600)

C17_Witness ==
    /\ NonObjectA2APost /\ req.raw.v = JsonVal("array", "message/send")
    /\ ~bypassPayments /\ req.proof = "none"
    /\ pc = "done" /\ res.rpc = -32600

\* a POST /a2a whose body is empty or whitespace only
EmptyA2APost ==
    req.path = "/a2a" /\ req.httpMethod = "POST" /\ req.raw.k \in {"empty", "blank"}

\* C18 as stated: an empty or whitespace-only POST /a2a body goes through
\* the payment middleware and the handler without a JSON-RPC error response
\* and without a payment challenge, whatever its content type.
C18_EmptyBodyIsNoError ==
    EmptyA2APost
        => /\ ~Invoked("paymentMiddleware")
           /\ res.status # 402
           /\ res.kind # "jsonrpc-error"

\* C18, amended: an empty or whitespace-only POST /a2a body is read by the
\* middleware as null whatever its content type, with no payment challenge
\* and no content-type or parse error; the handler then answers the null
\* body -32600 with id null, without invoking the runtime.
C18_EmptyBodyIsNullThenInvalid ==
    EmptyA2APost
        => /\ RejectedWith(-32600)
           /\ res.status # 402
           /\ pc \in {"a2a-middleware", "a2a-route", "done"}
           /\ pc \in {"a2a-route", "done"} => jsonrpcBody = JsonVal("null", NoMethod)

C18_Witness ==
    /\ EmptyA2APost /\ req.raw.k = "blank"
    /\ req.contentType = <<Seg("text", "", "csv")>>
    /\ jsonrpcBody = JsonVal("null", NoMethod)
    /\ pc = "done" /\ res = jsonRpcError(NullId, -32600)

\* upstream failures an agent endpoint can meet: a registry read that
\* fails, or a registration file no gateway delivers (502 for a transport
\* failure, the gateway's status otherwise)
UpstreamFailures ==
    {RegistryError(call) : call \in {"getTokenURI", "getOwner"}}
    \cup {RegistrationFileError(status) : status \in {502, 500, 403}}

\* C19: the 5xx response of the profile, score and validate endpoints to an
\* upstream failure is a generic body that does not depend on the internal
\* error: the response sent is the one any other upstream failure of the
\* same endpoint would have got.
C19_GenericUpstreamErrorBody ==
    (pc = "done" /\ handler \in AgentHandlers /\ res.status \in 500..599)
        => \A e \in UpstreamFailures : res = endpointError(ErrorMessageOf(handler), e)

\* the feedback read of the request failed
FeedbackReadFailed == feedbackError # ""

\* C20: a feedback read that throws aborts neither a score nor a validate
\* request.  The score endpoint answers 200 with the score of an empty
\* collection and feedbackSummary.warning set; the validate endpoint still
\* reports the reputation attestation, as no-feedback with details naming
\* the failure, goes on to the remaining attestations and answers 200 with
\* a verdict.
C20_FeedbackFailureIsAbsorbed ==
    FeedbackReadFailed
        => /\ handler \in {"score-invoke", "validate-invoke"}
           /\ res.status \in {0, 200}
           /\ handler = "score-invoke"
                => /\ pc = "done" /\ res.status = 200 /\ res.kind = "score"
                   /\ score.warning = feedbackError
                   /\ score.count = 0
                   /\ score.feedbackScore = 50
                   /\ score.trustScore = 50 + (3 * score.identityMaturity) \div 10
           /\ handler = "validate-invoke"
                => /\ \E i \in 1..Len(report.attestations) :
                        report.attestations[i] =
                            Attestation("reputation", "no-feedback",
                                        "feedback unavailable: " \o feedbackError)
                   /\ pc \in {"attest", "done"}
                   /\ pc = "done"
                        => /\ ValidateResponse
                           /\ Len(report.attestations) = Len(doc.supportedTrust)
                           /\ report.overallVerdict \in TerminalVerdicts

C20_Witness ==
    /\ FeedbackReadFailed /\ handler = "validate-invoke" /\ ValidateResponse
    /\ Len(report.attestations) = 3
    /\ report.attestations[1].status = "no-feedback"
    /\ report.attestations[2].status = "declared"

\* the candidates of a sequence are pairwise different
Distinct(s) == \A i, j \in 1..Len(s) : s[i] = s[j] => i = j

\* the fetch answered nothing, or a status that is not 2xx
NonSuccess(entry) == ~Ok(entry.got)

\* C21: fetchRegistrationFile fetches its candidates in list order, one at
\* a time and each at most once: three candidates at most for an ipfs://
\* URI and one for any other URI; a transport failure, a 404 and any other
\* non-success status are each followed by the next candidate, and the loop
\* ends on them only after the last candidate.
C21_CandidatesInOrderOnce ==
    /\ Len(fetchLog) <= Len(fetchUrls)
    /\ Distinct(fetchUrls)
    /\ \A i \in 1..Len(fetchLog) : fetchLog[i].url = fetchUrls[i]
    /\ fetchUrls # <<>>
         => Len(fetchUrls) = (IF tokenUri.scheme = "ipfs" THEN 3 ELSE 1)
    /\ pc = "fetch" => idx = Len(fetchLog) + 1
    /\ \A i \in 1..Len(fetchLog) :
         (NonSuccess(fetchLog[i]) /\ i < Len(fetchUrls))
             => (i < Len(fetchLog) \/ pc = "fetch")

C21_Witness ==
    /\ tokenUri.scheme = "ipfs" /\ pc = "done" /\ Len(fetchLog) = 3
    /\ fetchLog[1].url = "ipfs.io" /\ fetchLog[1].got.status = 0
    /\ fetchLog[2].url = "cloudflare-ipfs.com" /\ fetchLog[2].got.status = 500
    /\ fetchLog[3].url = "dweb.link" /\ fetchLog[3].got.status = 403

\* the token URI is an inline data:application/json;base64 URI whose payload
\* does not decode to a JSON document
BrokenInlineDocument == tokenUri.scheme = "data" /\ tokenUri.payload # "object"

\* C22: for an inline data: URI whose payload fails to decode or to parse,
\* no fetch is attempted and the resolution fails as not found: the response
\* is 404.
C22_BrokenInlineIsNotFound ==
    BrokenInlineDocument
        => /\ fetchLog = <<>>
           /\ pc # "fetch"
           /\ pc = "done" => res.status = 404

\* the candidate answered 2xx with a body that is not JSON
BadBody(entry) == Ok(entry.got) /\ ~entry.got.json

\* C27: a candidate that answers 2xx with a body that is not valid JSON
\* ends the resolution: it is the last candidate fetched, whatever its place
\* in the list, and the request is answered 500 with the message of the
\* parse error, not with the not-found text.
C27_BadBodyEndsResolution ==
    \A i \in 1..Len(fetchLog) :
        BadBody(fetchLog[i])
            => /\ i = Len(fetchLog)
               /\ pc = "done"
               /\ res = Response(500, 0, ErrorMessageOf(handler), SyntaxError.message)
               /\ doc = NoDoc

C27_Witness ==
    /\ tokenUri.scheme = "ipfs" /\ pc = "done"
    /\ Len(fetchLog) = 1 /\ Len(fetchUrls) = 3
    /\ BadBody(fetchLog[1])
    /\ res.status = 500

\* C26: the validate handler never returns validated-with-warnings: at
\* every point of the handler a report with an issue has an endpoint that
\* is not reachable or a wallet that is not valid, so every verdict
\* returned is validated, partial or failed.
C26_NeverValidatedWithWarnings ==
    handler = "validate-invoke"
        => /\ ~NoIssues => ~(AllEndpointsReachable /\ report.walletStatus.valid)
           /\ ValidateResponse
                 => report.overallVerdict \in {"validated", "partial", "failed"}

C26_Witness ==
    /\ ValidateResponse
    /\ Len(report.issues) = 1
    /\ Len(report.endpointStatus) = 2 /\ ~AllEndpointsReachable
    /\ Invoked("getMetadata") /\ report.walletStatus.valid
    /\ ~report.walletStatus.isOwner
    /\ report.overallVerdict = "partial"

\* the request asks for neither the endpoints nor the wallet check
NeitherEndpointsNorWallet ==
    ~Includes(RequestedChecks, "endpoints") /\ ~Includes(RequestedChecks, "wallet")

\* the request asks for the endpoints check and the agent declares none
EndpointsOfNone == Includes(RequestedChecks, "endpoints") /\ doc.endpoints = <<>>

\* C28 as stated: a validate request that asks for neither endpoints nor
\* wallet, or asks for endpoints of an agent that declares none, is
\* answered validated.
C28_NoIssueChecksAreValidated ==
    (ValidateResponse /\ (NeitherEndpointsNorWallet \/ EndpointsOfNone))
        => report.overallVerdict = "validated"

\* C28: a validate request that does not ask for the wallet check, and
\* either does not ask for endpoints or asks for them of an agent that
\* declares none, records no issue and is answered validated whatever the
\* wallet, the endpoints and the attestations are.
C28_NoWalletNoProbeIsValidated ==
    (ValidateResponse /\ ~Includes(RequestedChecks, "wallet")
       /\ (NeitherEndpointsNorWallet \/ EndpointsOfNone))
        => report.overallVerdict = "validated" /\ NoIssues

C28_Witness ==
    /\ ValidateResponse
    /\ RequestedChecks = <<"endpoints">> /\ doc.endpoints = <<>>
    /\ Len(doc.supportedTrust) = 3
    /\ report.overallVerdict = "validated"

\* the decision table read over the requested checks only: a condition on
\* a check that was not requested is left out of its row
VerdictOverRequested ==
    LET endpointsAsked == Includes(RequestedChecks, "endpoints")
        walletAsked == Includes(RequestedChecks, "wallet")
    IN  IF NoIssues THEN "validated"
        ELSE IF /\ endpointsAsked => AllEndpointsReachable
                /\ walletAsked => report.walletStatus.valid
             THEN "validated-with-warnings"
        ELSE IF \/ endpointsAsked /\ SomeEndpointReachable
                \/ walletAsked /\ report.walletStatus.valid
             THEN "partial"
        ELSE "failed"

\* C23: a check that was not requested leaves no data in the report and
\* does not affect the verdict: its part of the report is as the handler
\* created it (no endpoint entry, no wallet address, no attestation), the
\* calls the check would make are not made, and the verdict returned is
\* that of the decision table read over the requested checks only.
C23_UnrequestedChecksLeaveNoTrace ==
    handler = "validate-invoke"
        => /\ ~Includes(RequestedChecks, "endpoints")
                 => report.endpointStatus = <<>> /\ ~Invoked("probe")
           /\ ~Includes(RequestedChecks, "wallet")
                 => /\ report.walletStatus = WalletStatus(<<>>, FALSE, FALSE)
                    /\ ~Invoked("getMetadata")
           /\ ~Includes(RequestedChecks, "attestations")
                 => report.attestations = <<>> /\ ~Invoked("readAllFeedback")
           /\ ValidateResponse => report.overallVerdict = VerdictOverRequested

C23_Witness ==
    /\ ValidateResponse
    /\ RequestedChecks = <<"endpoints">>
    /\ Len(report.endpointStatus) = 2 /\ ~SomeEndpointReachable
    /\ Len(doc.supportedTrust) = 3 /\ report.attestations = <<>>
    /\ report.walletStatus.address = <<>>
    /\ report.overallVerdict = "failed"

\* C24: a slow endpoint does not delay the probes of the other endpoints:
\* however many endpoints are probed and however they answer, the endpoint
\* loop of one validation takes no longer than one probe timeout.
C24_EndpointsCheckWithinOneTimeout == elapsed <= ProbeTimeoutMs

\* a probe is awaited
ProbeInFlight == pc \in {"probing", "executor-probing"}

ReplyKinds == {"usage", "error", "profile", "score", "validation"}

\* C29: a call of execute publishes one agent message, the one carrying
\* its response text, and then calls finished once, whatever path it takes:
\* nothing is on the bus before it ends, a failing registry call ends it
\* with an 'Error: ...' message, and cancelTask calls finished only.
C29_OneMessageThenFinished ==
    /\ pc # "done" => eventBus = <<>>
    /\ pc = "done"
         => \/ /\ responseText = NoText /\ log = <<>>
               /\ eventBus = <<Finished>>
            \/ /\ responseText.kind \in ReplyKinds
               /\ eventBus = <<Published(responseText), Finished>>
    /\ (pc = "done" /\ log # <<>> /\ responseText.kind = "error")
         => responseText.text = "Error: " \o log[Len(log)] \o " reverted"

C29_Witness ==
    /\ pc = "done"
    /\ log = <<"getRegistrationFile", "getOwner">>
    /\ responseText = ErrorText(RegistryError("getOwner"))
    /\ eventBus = <<Published(responseText), Finished>>

\* C30: for the same registration file and the same feedback, the score and
\* the verdict getTrustScore reports are those POST /agent/score/invoke
\* returns.
C30_ExecutorScoreEqualsRoute ==
    (pc = "done" /\ responseText.kind = "score")
        => /\ responseText.trustScore = ScoreOutput(doc, feedback, "").trustScore
           /\ responseText.verdict = ScoreOutput(doc, feedback, "").verdict

====
